---- MODULE Spec2Model ----
(***************************************************************************)
(* State-machine model of the sumo robot controller                        *)
(* (src/sumo_bot/SumoBotCode.ino).  One step of the model is one pass of   *)
(* loop(): the clock is sampled, the five border sensors are read, the     *)
(* border priority rule is applied, the range sensors are polled on their  *)
(* own cadence, and the handler of the current state runs.  Blocking       *)
(* delay() calls inside a handler advance the clock within the same step.  *)
(*                                                                         *)
(* Times are milliseconds as returned by millis().  The modelled horizon   *)
(* is a few seconds, far below the 2^32 ms wrap of unsigned long, and no   *)
(* subtraction of timestamps in the horizon goes below zero, so plain      *)
(* integer arithmetic coincides with the unsigned 32-bit arithmetic of the *)
(* code.                                                                   *)
(***************************************************************************)
EXTENDS Integers, Sequences, FiniteSets, TLC

VARIABLES
    currentState,       \* State currentState
    prevState,          \* value of currentState when the last loop() pass began
    clock,              \* millis() at the end of the last loop() pass
    currentMillis,      \* millis() as sampled at the top of the last loop() pass
    stateStartTime,
    pushStartTime,
    lastEnemyDistance,
    lastUltraFront,
    lastUltraSide,
    distanceFront,
    distanceLeft,
    distanceRight,
    enemyDetected,
    enemyDirection,
    borderFrontRight,
    borderFrontLeft,
    borderRight,
    borderLeft,
    borderBack,
    borderDetected,
    motors,             \* value last handed to analogWrite() for each of the
                        \* four drive channels
    driveLog,           \* setMotors() calls of the last loop() pass, in order
    requestLeft,        \* leftSpeed and rightSpeed of the last setMotors() call
    requestRight,
    frSample,           \* frValue and flValue of executeBorderEscape when the
    flSample,           \* last loop() pass read them, 0 when it did not
    irValues,           \* the five analogRead() values of the last
                        \* readAllIRSensors() call
    serialLog,          \* lines written to Serial by the last loop() pass
    \* the train controller (src/train_s1rail/modified_train_s1rail.ino)
    trainClock,         \* millis() at the end of the last loop() pass
    motorPin,           \* level last written to MOTOR_PIN
    currentStationIndex,
    whiteCount,
    isPaused,
    ignoreWhite,
    pauseStart,
    pauseDuration,
    stableState,
    lastStableState,
    lastDebounceTime,
    lastReading,
    telemetryLog,       \* sendTelemetry() calls of the last loop() pass, in order
    lastTelemetry,      \* the sendTelemetry() call made last of all
    arrivedAt,          \* millis() when the last arrival wrote MOTOR_PIN LOW
    departedAt,         \* millis() when the last departure wrote MOTOR_PIN HIGH
    arrivals,           \* stations registered since setup()
    \* the station card reader (listing in src/sumo_bot/documentation.md)
    stationClock,       \* millis() at the end of the last loop() pass
    lastCardReadTime,
    lastCardUID,
    totalCardsScanned,
    successfulValidations,
    failedValidations,
    lastCheckTime,      \* the statics of ensureWiFiConnected()
    reconnectAttempts,
    cardSeen,           \* cardUID of the last loop() pass, "" when it read none
    readTime,           \* millis() of the last isDuplicateRead() call
    validation,         \* validateCardWithBackend() in the last pass: "none"
                        \* (not called), "offline" or "online"
    httpLog,            \* outcomes of the http.POST() calls of the last pass
    lastAttemptTime,    \* millis() of the last WiFi reconnection attempt
    attemptWaits        \* times between the successive reconnection attempts
                        \* made since WiFi was last found connected

vars == <<currentState, prevState, clock, currentMillis, stateStartTime,
          pushStartTime, lastEnemyDistance, lastUltraFront, lastUltraSide,
          distanceFront, distanceLeft, distanceRight, enemyDetected,
          enemyDirection, borderFrontRight, borderFrontLeft, borderRight,
          borderLeft, borderBack, borderDetected, motors, driveLog,
          requestLeft, requestRight, frSample, flSample, irValues,
          serialLog, trainClock, motorPin, currentStationIndex, whiteCount,
          isPaused, ignoreWhite, pauseStart, pauseDuration, stableState,
          lastStableState, lastDebounceTime, lastReading, telemetryLog,
          lastTelemetry, arrivedAt, departedAt, arrivals, stationClock,
          lastCardReadTime, lastCardUID, totalCardsScanned,
          successfulValidations, failedValidations, lastCheckTime,
          reconnectAttempts, cardSeen, readTime, validation, httpLog,
          lastAttemptTime, attemptWaits>>

\* The variables of the sumo robot
robotVars == <<currentState, prevState, clock, currentMillis, stateStartTime,
               pushStartTime, lastEnemyDistance, lastUltraFront, lastUltraSide,
               distanceFront, distanceLeft, distanceRight, enemyDetected,
               enemyDirection, borderFrontRight, borderFrontLeft, borderRight,
               borderLeft, borderBack, borderDetected, motors, driveLog,
               requestLeft, requestRight, frSample, flSample, irValues,
               serialLog>>

\* The variables of the train controller
trainVars == <<trainClock, motorPin, currentStationIndex, whiteCount, isPaused,
               ignoreWhite, pauseStart, pauseDuration, stableState,
               lastStableState, lastDebounceTime, lastReading, telemetryLog,
               lastTelemetry, arrivedAt, departedAt, arrivals>>

----------------------------------------------------------------------------
(* Configuration (#define) *)

SPEED_MAX == 255
SPEED_SEARCH == 180
SPEED_ATTACK == 200
SPEED_PUSH == 255
SPEED_ARC_INNER == 153
SPEED_ARC_OUTER == 230
SPEED_CLOSE_INNER == 165
SPEED_CLOSE_OUTER == 204

OPENING_SPIN_TIME == 500
OPENING_CHARGE_TIME == 800
BORDER_REVERSE_TIME == 300
BORDER_TURN_TIME == 400
BORDER_REV_SIDE == 200
BORDER_TURN_SIDE == 300
BORDER_REV_BACK == 300
BORDER_TURN_BACK == 300

ENEMY_CLOSE == 30
ENEMY_MEDIUM == 80
ENEMY_FAR == 150
ENEMY_LOST == 50
ENEMY_MIN == 10

IR_THRESHOLD == 512

ULTRA_INTERVAL == 50
ULTRA_SIDE_INTERVAL == 200

DEADLOCK_TIME == 2000

\* executeAttack: "if(lostTime > 1000)"
ATTACK_LOST_GRACE == 1000
\* executeSearch: "delay(200)"
SEARCH_FACE_DELAY == 200
\* executePush: "delay(300)" after moveBackward, "delay(300)" after rotateClockwise
DEADLOCK_REVERSE_DELAY == 300
DEADLOCK_ROTATE_DELAY == 300
\* executePush: "abs(distanceFront - lastEnemyDistance) < 5"
DEADLOCK_TOLERANCE == 5
\* readUltrasonic: "return 999", and the initial value of the distances
INVALID_DISTANCE == 999
\* readUltrasonic: "if(distance < 2 || distance > 400)"
ULTRA_MIN_CM == 2
ULTRA_MAX_CM == 400
\* setup(): five delay(1000) of the countdown precede "stateStartTime = millis()"
SETUP_COUNTDOWN_MS == 5000

STATE_INIT == "STATE_INIT"
STATE_OPENING_MOVE == "STATE_OPENING_MOVE"
STATE_SEARCH == "STATE_SEARCH"
STATE_ATTACK == "STATE_ATTACK"
STATE_PUSH == "STATE_PUSH"
STATE_BORDER_ESCAPE == "STATE_BORDER_ESCAPE"

State == {STATE_INIT, STATE_OPENING_MOVE, STATE_SEARCH, STATE_ATTACK,
          STATE_PUSH, STATE_BORDER_ESCAPE}

----------------------------------------------------------------------------
(* Bounds of the model and the inputs drawn by each loop() pass *)

\* Time that passes between the end of one loop() pass and the clock sample
\* of the next
TickMs == 250

\* No loop() pass begins after this many milliseconds past the end of setup()
Horizon == 4500

MaxTime == SETUP_COUNTDOWN_MS + Horizon

Steps == {TickMs}

\* analogRead() values of the five border sensors in one pass
IRVec(fr, fl, r, l, b) == [fr |-> fr, fl |-> fl, r |-> r, l |-> l, b |-> b]

\* Every sensor over the black surface (one of them exactly at the threshold)
IRClear == {IRVec(300, 512, 300, 300, 300)}

\* The surface, or the white line under the front-left sensor, under both
\* front sensors, under the right sensor, under the left and the back sensor,
\* under the back sensor alone, or under the front-right, the right and the
\* back sensor
IRSample == IRClear \cup {IRVec(300, 700, 300, 300, 300),
                          IRVec(800, 700, 300, 300, 300),
                          IRVec(300, 300, 700, 300, 300),
                          IRVec(300, 300, 300, 700, 700),
                          IRVec(300, 300, 300, 300, 700),
                          IRVec(800, 300, 700, 300, 700)}

\* Second analogRead() of the two front sensors inside executeBorderEscape
RereadFR == {700, 800}
RereadFL == {700}

\* pulseIn() results in microseconds: 0 = timeout, the others are echo times
\* (58 us ~ 0 cm, 292 us ~ 5 cm, 1458 us ~ 25 cm, 1750 us ~ 30 cm,
\*  2333 us ~ 40 cm, 3499 us ~ 60 cm, 5831 us ~ 100 cm, 25000 us ~ 428 cm)
EchoFront == {0, 1458, 5831}
EchoFrontWide == {0, 58, 292, 1458, 1750, 2333, 3499, 5831, 25000}
EchoSide == {0, 3499}
EchoSilent == {0}
EchoFlank == {0, 1458, 3499}

\* Shorter periods of loop(): below ULTRA_INTERVAL, and between it and
\* ULTRA_SIDE_INTERVAL
FineSteps == {25, 100}

\* Largest magnitude of a speed handed to the motion layer
MaxSpeedRequest == 300

\* Signed speeds handed to the motion layer: zero, the smallest and the
\* largest PWM magnitude, and a magnitude beyond SPEED_MAX, in both directions
SpeedRequests == {-MaxSpeedRequest, -SPEED_MAX, -1, 0, 1, SPEED_MAX, MaxSpeedRequest}

\* With the short periods no loop() pass begins after this many milliseconds
\* past the end of setup()
FineHorizon == 1500

----------------------------------------------------------------------------
(* Motion layer *)

\* Variant of SetMotors: a reversing wheel keeps its forward channel driven
SetMotors_BothChannels(leftSpeed, rightSpeed) ==
    [lf |-> IF leftSpeed > 0 THEN leftSpeed ELSE -leftSpeed,
     lb |-> IF leftSpeed < 0 THEN -leftSpeed ELSE 0,
     rf |-> IF rightSpeed > 0 THEN rightSpeed ELSE -rightSpeed,
     rb |-> IF rightSpeed < 0 THEN -rightSpeed ELSE 0]

\* setMotors(leftSpeed, rightSpeed): the value handed to analogWrite() for
\* each of the four channels
SetMotors(leftSpeed, rightSpeed) ==
    [lf |-> IF leftSpeed > 0 THEN leftSpeed ELSE 0,
     lb |-> IF leftSpeed < 0 THEN -leftSpeed ELSE 0,
     rf |-> IF rightSpeed > 0 THEN rightSpeed ELSE 0,
     rb |-> IF rightSpeed < 0 THEN -rightSpeed ELSE 0]

StopMotors == SetMotors(0, 0)

MoveForward(speed) == SetMotors(speed, speed)

MoveBackward(speed) == SetMotors(-speed, -speed)

RotateClockwise(speed) == SetMotors(speed, -speed)

RotateCounterClockwise(speed) == SetMotors(-speed, speed)

\* The arguments of the setMotors() call that wrote the channel values duty:
\* at most one channel of a wheel is non-zero, and it carries the magnitude
RequestOf(duty) == [left |-> duty.lf - duty.lb, right |-> duty.rf - duty.rb]

----------------------------------------------------------------------------
(* Sensor acquisition *)

\* Variant of ReadAllIRSensors: a reading equal to the threshold sets the flag
ReadAllIRSensors_Inclusive(ir) ==
    LET fr == ir.fr >= IR_THRESHOLD
        fl == ir.fl >= IR_THRESHOLD
        r  == ir.r >= IR_THRESHOLD
        l  == ir.l >= IR_THRESHOLD
        b  == ir.b >= IR_THRESHOLD
    IN  [fr |-> fr, fl |-> fl, r |-> r, l |-> l, b |-> b,
         detected |-> (fr \/ fl \/ r \/ l \/ b)]

\* readAllIRSensors(): the five flags and their disjunction
ReadAllIRSensors(ir) ==
    LET fr == ir.fr > IR_THRESHOLD
        fl == ir.fl > IR_THRESHOLD
        r  == ir.r > IR_THRESHOLD
        l  == ir.l > IR_THRESHOLD
        b  == ir.b > IR_THRESHOLD
    IN  [fr |-> fr, fl |-> fl, r |-> r, l |-> l, b |-> b,
         detected |-> (fr \/ fl \/ r \/ l \/ b)]

\* "int distance = duration * 0.0343 / 2": echo time to centimetres,
\* truncated toward zero (0.0343 / 2 = 343 / 20000)
EchoToCm(duration) == (duration * 343) \div 20000

\* readUltrasonic(): the value returned for a pulseIn() result
ReadUltrasonic(duration) ==
    LET distance == EchoToCm(duration)
    IN  IF distance < ULTRA_MIN_CM \/ distance > ULTRA_MAX_CM
        THEN INVALID_DISTANCE
        ELSE distance

\* Variant of FrontDue: the front sensor polled on the cadence of the sides
FrontDue_SideCadence(cm) == cm - lastUltraFront >= ULTRA_SIDE_INTERVAL

\* readUltrasonicSensors(): is the front / are the side sensors polled
FrontDue(cm) == cm - lastUltraFront >= ULTRA_INTERVAL

SideDue(cm) == cm - lastUltraSide >= ULTRA_SIDE_INTERVAL

\* readUltrasonicSensors() up to the call of updateEnemyStatus()
ReadUltrasonicSensors(cm, echoF, echoL, echoR) ==
    [front |-> IF FrontDue(cm) THEN ReadUltrasonic(echoF) ELSE distanceFront,
     lastFront |-> IF FrontDue(cm) THEN cm ELSE lastUltraFront,
     left  |-> IF SideDue(cm) THEN ReadUltrasonic(echoL) ELSE distanceLeft,
     right |-> IF SideDue(cm) THEN ReadUltrasonic(echoR) ELSE distanceRight,
     lastSide |-> IF SideDue(cm) THEN cm ELSE lastUltraSide]

InRange(d) == d >= ENEMY_MIN /\ d <= ENEMY_FAR

\* Variant of UpdateEnemyStatus: equal flank readings resolve to the left
UpdateEnemyStatus_TieLeft(dF, dL, dR, oldDirection) ==
    LET frontEnemy == InRange(dF)
        leftEnemy  == InRange(dL)
        rightEnemy == InRange(dR)
    IN  [detected |-> (frontEnemy \/ leftEnemy \/ rightEnemy),
         direction |->
            IF frontEnemy THEN 0
            ELSE IF leftEnemy /\ ~rightEnemy THEN -1
            ELSE IF rightEnemy /\ ~leftEnemy THEN 1
            ELSE IF leftEnemy /\ rightEnemy
                 THEN (IF dL <= dR THEN -1 ELSE 1)
            ELSE oldDirection]

\* updateEnemyStatus(): enemyDetected and enemyDirection (0 front, -1 left,
\* 1 right; left as it was when no sensor is in range)
UpdateEnemyStatus(dF, dL, dR, oldDirection) ==
    LET frontEnemy == InRange(dF)
        leftEnemy  == InRange(dL)
        rightEnemy == InRange(dR)
    IN  [detected |-> (frontEnemy \/ leftEnemy \/ rightEnemy),
         direction |->
            IF frontEnemy THEN 0
            ELSE IF leftEnemy /\ ~rightEnemy THEN -1
            ELSE IF rightEnemy /\ ~leftEnemy THEN 1
            ELSE IF leftEnemy /\ rightEnemy
                 THEN (IF dL < dR THEN -1 ELSE 1)
            ELSE oldDirection]

----------------------------------------------------------------------------
(* State handlers.  Each returns the new currentState (st), stateStartTime *)
(* (sst), pushStartTime (pst), lastEnemyDistance (led), the setMotors()    *)
(* calls it made (log) and the time it spent in delay() (wait).            *)

Outcome(st, sst, pst, led, log, wait) ==
    [st |-> st, sst |-> sst, pst |-> pst, led |-> led, log |-> log, wait |-> wait]

\* Variant of BorderPriority: a push in progress is not interrupted
BorderPriority_KeepsPushing(detected, st, sst, cm) ==
    IF detected /\ st # STATE_BORDER_ESCAPE /\ st # STATE_PUSH
    THEN [st |-> STATE_BORDER_ESCAPE, sst |-> cm]
    ELSE [st |-> st, sst |-> sst]

\* Variant of BorderPriority: the escape is entered on the timer of the
\* interrupted state
BorderPriority_KeepsTimer(detected, st, sst, cm) ==
    IF detected /\ st # STATE_BORDER_ESCAPE
    THEN [st |-> STATE_BORDER_ESCAPE, sst |-> sst]
    ELSE [st |-> st, sst |-> sst]

\* loop(): PRIORITY 1, border detection overrides everything but the escape
BorderPriority(detected, st, sst, cm) ==
    IF detected /\ st # STATE_BORDER_ESCAPE
    THEN [st |-> STATE_BORDER_ESCAPE, sst |-> cm]
    ELSE [st |-> st, sst |-> sst]

\* Variant of ExecuteOpeningMove: the opening ends in Attack
ExecuteOpeningMove_SkipsSearch(cm, sst) ==
    LET elapsed == cm - sst
    IN  IF elapsed < OPENING_SPIN_TIME
        THEN Outcome(STATE_OPENING_MOVE, sst, pushStartTime, lastEnemyDistance,
                     <<RotateClockwise(SPEED_MAX)>>, 0)
        ELSE IF elapsed < OPENING_SPIN_TIME + OPENING_CHARGE_TIME
        THEN Outcome(STATE_OPENING_MOVE, sst, pushStartTime, lastEnemyDistance,
                     <<MoveForward(SPEED_MAX)>>, 0)
        ELSE Outcome(STATE_ATTACK, cm, pushStartTime, lastEnemyDistance, <<>>, 0)

\* Variant of ExecuteOpeningMove: the charge lasts through the 1300th
\* millisecond
ExecuteOpeningMove_ChargeInclusive(cm, sst) ==
    LET elapsed == cm - sst
    IN  IF elapsed < OPENING_SPIN_TIME
        THEN Outcome(STATE_OPENING_MOVE, sst, pushStartTime, lastEnemyDistance,
                     <<RotateClockwise(SPEED_MAX)>>, 0)
        ELSE IF elapsed <= OPENING_SPIN_TIME + OPENING_CHARGE_TIME
        THEN Outcome(STATE_OPENING_MOVE, sst, pushStartTime, lastEnemyDistance,
                     <<MoveForward(SPEED_MAX)>>, 0)
        ELSE Outcome(STATE_SEARCH, cm, pushStartTime, lastEnemyDistance, <<>>, 0)

ExecuteOpeningMove(cm, sst) ==
    LET elapsed == cm - sst
    IN  IF elapsed < OPENING_SPIN_TIME
        THEN Outcome(STATE_OPENING_MOVE, sst, pushStartTime, lastEnemyDistance,
                     <<RotateClockwise(SPEED_MAX)>>, 0)
        ELSE IF elapsed < OPENING_SPIN_TIME + OPENING_CHARGE_TIME
        THEN Outcome(STATE_OPENING_MOVE, sst, pushStartTime, lastEnemyDistance,
                     <<MoveForward(SPEED_MAX)>>, 0)
        ELSE Outcome(STATE_SEARCH, cm, pushStartTime, lastEnemyDistance, <<>>, 0)

\* Variant of ExecuteSearch: a lateral target is answered by the opposite
\* rotation
ExecuteSearch_TurnsAway(cm, sst, enemy) ==
    IF enemy.detected
    THEN IF enemy.direction = 0
         THEN Outcome(STATE_ATTACK, cm, pushStartTime, lastEnemyDistance, <<>>, 0)
         ELSE Outcome(STATE_ATTACK, cm, pushStartTime, lastEnemyDistance,
                      <<IF enemy.direction = -1
                        THEN RotateClockwise(SPEED_SEARCH)
                        ELSE RotateCounterClockwise(SPEED_SEARCH)>>,
                      SEARCH_FACE_DELAY)
    ELSE Outcome(STATE_SEARCH, sst, pushStartTime, lastEnemyDistance,
                 <<RotateClockwise(SPEED_SEARCH)>>, 0)

\* Variant of ExecuteSearch: the rotation toward a lateral target is not
\* held, the handler returns at once
ExecuteSearch_NoHold(cm, sst, enemy) ==
    IF enemy.detected
    THEN IF enemy.direction = 0
         THEN Outcome(STATE_ATTACK, cm, pushStartTime, lastEnemyDistance, <<>>, 0)
         ELSE Outcome(STATE_ATTACK, cm, pushStartTime, lastEnemyDistance,
                      <<IF enemy.direction = -1
                        THEN RotateCounterClockwise(SPEED_SEARCH)
                        ELSE RotateClockwise(SPEED_SEARCH)>>,
                      0)
    ELSE Outcome(STATE_SEARCH, sst, pushStartTime, lastEnemyDistance,
                 <<RotateClockwise(SPEED_SEARCH)>>, 0)

ExecuteSearch(cm, sst, enemy) ==
    IF enemy.detected
    THEN IF enemy.direction = 0
         THEN Outcome(STATE_ATTACK, cm, pushStartTime, lastEnemyDistance, <<>>, 0)
         ELSE Outcome(STATE_ATTACK, cm, pushStartTime, lastEnemyDistance,
                      <<IF enemy.direction = -1
                        THEN RotateCounterClockwise(SPEED_SEARCH)
                        ELSE RotateClockwise(SPEED_SEARCH)>>,
                      SEARCH_FACE_DELAY)
    ELSE Outcome(STATE_SEARCH, sst, pushStartTime, lastEnemyDistance,
                 <<RotateClockwise(SPEED_SEARCH)>>, 0)

\* executeAttack: "if(!enemyDetected || distanceFront > ENEMY_LOST)"
\* Variant of AttackTargetLost: a target still in sensing range is never lost
AttackTargetLost_OnlyUnseen(enemy, dF) == ~enemy.detected

\* executeAttack: "if(!enemyDetected || distanceFront > ENEMY_LOST)"

AttackTargetLost(enemy, dF) == ~enemy.detected \/ dF > ENEMY_LOST

\* executeAttack: "if(lostTime > 1000)"
AttackGraceOver(cm, sst) == cm - sst > ATTACK_LOST_GRACE

\* Variant of AttackCloseRange: strict comparison
AttackCloseRange_Strict(dF) == dF < ENEMY_CLOSE

\* executeAttack: "if(distanceFront <= ENEMY_CLOSE)"
AttackCloseRange(dF) == dF <= ENEMY_CLOSE

\* Variant of AttackArc: the two bands exchanged
AttackArc_BandsSwapped(dF) ==
    IF dF > ENEMY_MEDIUM
    THEN SetMotors(SPEED_CLOSE_INNER, SPEED_CLOSE_OUTER)
    ELSE SetMotors(SPEED_ARC_INNER, SPEED_ARC_OUTER)

\* executeAttack: the arc of the circle-and-strike approach
AttackArc(dF) ==
    IF dF > ENEMY_MEDIUM
    THEN SetMotors(SPEED_ARC_INNER, SPEED_ARC_OUTER)
    ELSE SetMotors(SPEED_CLOSE_INNER, SPEED_CLOSE_OUTER)

\* Variant of ExecuteAttack: the pass that enters Push already commands the
\* push
ExecuteAttack_ChargesOnEntry(cm, sst, enemy, dF) ==
    IF AttackTargetLost(enemy, dF) /\ AttackGraceOver(cm, sst)
    THEN Outcome(STATE_SEARCH, cm, pushStartTime, lastEnemyDistance, <<>>, 0)
    ELSE IF AttackCloseRange(dF)
    THEN Outcome(STATE_PUSH, cm, cm, lastEnemyDistance,
                 <<MoveForward(SPEED_PUSH)>>, 0)
    ELSE Outcome(STATE_ATTACK, sst, pushStartTime, lastEnemyDistance,
                 <<AttackArc(dF)>>, 0)

ExecuteAttack(cm, sst, enemy, dF) ==
    IF AttackTargetLost(enemy, dF) /\ AttackGraceOver(cm, sst)
    THEN Outcome(STATE_SEARCH, cm, pushStartTime, lastEnemyDistance, <<>>, 0)
    ELSE IF AttackCloseRange(dF)
    THEN Outcome(STATE_PUSH, cm, cm, lastEnemyDistance, <<>>, 0)
    ELSE Outcome(STATE_ATTACK, sst, pushStartTime, lastEnemyDistance,
                 <<AttackArc(dF)>>, 0)

Abs(x) == IF x < 0 THEN -x ELSE x

\* executePush: the deadlock test
PushDeadlock(cm, dF) ==
    /\ cm - pushStartTime > DEADLOCK_TIME
    /\ Abs(dF - lastEnemyDistance) < DEADLOCK_TOLERANCE

\* executePush: "if(!enemyDetected || distanceFront > ENEMY_LOST)"
PushEnemyEscaped(enemy, dF) == ~enemy.detected \/ dF > ENEMY_LOST

\* Variant of ExecutePush: every pass that keeps pushing restarts the
\* deadlock window
ExecutePush_RestartsWindow(cm, sst, enemy, dF) ==
    IF PushDeadlock(cm, dF)
    THEN Outcome(STATE_ATTACK, cm, pushStartTime, lastEnemyDistance,
                 <<MoveBackward(SPEED_MAX), RotateClockwise(SPEED_MAX)>>,
                 DEADLOCK_REVERSE_DELAY + DEADLOCK_ROTATE_DELAY)
    ELSE IF PushEnemyEscaped(enemy, dF)
    THEN Outcome(STATE_SEARCH, cm, pushStartTime, dF, <<>>, 0)
    ELSE Outcome(STATE_PUSH, sst, cm, dF, <<MoveForward(SPEED_PUSH)>>, 0)

\* Variant of ExecutePush: the escaped test comes before the deadlock test
ExecutePush_LostFirst(cm, sst, enemy, dF) ==
    IF PushEnemyEscaped(enemy, dF)
    THEN Outcome(STATE_SEARCH, cm, pushStartTime, dF, <<>>, 0)
    ELSE IF PushDeadlock(cm, dF)
    THEN Outcome(STATE_ATTACK, cm, pushStartTime, lastEnemyDistance,
                 <<MoveBackward(SPEED_MAX), RotateClockwise(SPEED_MAX)>>,
                 DEADLOCK_REVERSE_DELAY + DEADLOCK_ROTATE_DELAY)
    ELSE Outcome(STATE_PUSH, sst, pushStartTime, dF, <<MoveForward(SPEED_PUSH)>>, 0)

\* Variant of ExecutePush: the recovery stamps the state entry with the time
\* at the end of its two holds
ExecutePush_StampsAfterRecovery(cm, sst, enemy, dF) ==
    IF PushDeadlock(cm, dF)
    THEN Outcome(STATE_ATTACK,
                 cm + DEADLOCK_REVERSE_DELAY + DEADLOCK_ROTATE_DELAY,
                 pushStartTime, lastEnemyDistance,
                 <<MoveBackward(SPEED_MAX), RotateClockwise(SPEED_MAX)>>,
                 DEADLOCK_REVERSE_DELAY + DEADLOCK_ROTATE_DELAY)
    ELSE IF PushEnemyEscaped(enemy, dF)
    THEN Outcome(STATE_SEARCH, cm, pushStartTime, dF, <<>>, 0)
    ELSE Outcome(STATE_PUSH, sst, pushStartTime, dF, <<MoveForward(SPEED_PUSH)>>, 0)

\* Variant of ExecutePush: the distance is remembered only when the handler
\* leaves Push, so a continuing push keeps comparing against the first one
ExecutePush_KeepsFirstDistance(cm, sst, enemy, dF) ==
    IF PushDeadlock(cm, dF)
    THEN Outcome(STATE_ATTACK, cm, pushStartTime, lastEnemyDistance,
                 <<MoveBackward(SPEED_MAX), RotateClockwise(SPEED_MAX)>>,
                 DEADLOCK_REVERSE_DELAY + DEADLOCK_ROTATE_DELAY)
    ELSE IF PushEnemyEscaped(enemy, dF)
    THEN Outcome(STATE_SEARCH, cm, pushStartTime, dF, <<>>, 0)
    ELSE Outcome(STATE_PUSH, sst, pushStartTime, lastEnemyDistance,
                 <<MoveForward(SPEED_PUSH)>>, 0)

ExecutePush(cm, sst, enemy, dF) ==
    IF PushDeadlock(cm, dF)
    THEN Outcome(STATE_ATTACK, cm, pushStartTime, lastEnemyDistance,
                 <<MoveBackward(SPEED_MAX), RotateClockwise(SPEED_MAX)>>,
                 DEADLOCK_REVERSE_DELAY + DEADLOCK_ROTATE_DELAY)
    ELSE IF PushEnemyEscaped(enemy, dF)
    THEN Outcome(STATE_SEARCH, cm, pushStartTime, dF, <<>>, 0)
    ELSE Outcome(STATE_PUSH, sst, pushStartTime, dF, <<MoveForward(SPEED_PUSH)>>, 0)

\* Variant of EscapeZone: a single timed maneuver, Search follows whatever the
\* sensors read
EscapeZone_FireAndForget(cm, sst, detected, first, turn, d1, d2) ==
    LET elapsed == cm - sst
    IN  IF elapsed < d1
        THEN Outcome(STATE_BORDER_ESCAPE, sst, pushStartTime, lastEnemyDistance,
                     <<first>>, 0)
        ELSE IF elapsed < d1 + d2
        THEN Outcome(STATE_BORDER_ESCAPE, sst, pushStartTime, lastEnemyDistance,
                     <<turn>>, 0)
        ELSE Outcome(STATE_SEARCH, cm, pushStartTime, lastEnemyDistance, <<>>, 0)

\* Variant of EscapeZone: a retry starts the maneuver over from its first
\* phase
EscapeZone_RetryFromStart(cm, sst, detected, first, turn, d1, d2) ==
    LET elapsed == cm - sst
    IN  IF elapsed < d1
        THEN Outcome(STATE_BORDER_ESCAPE, sst, pushStartTime, lastEnemyDistance,
                     <<first>>, 0)
        ELSE IF elapsed < d1 + d2
        THEN Outcome(STATE_BORDER_ESCAPE, sst, pushStartTime, lastEnemyDistance,
                     <<turn>>, 0)
        ELSE IF ~detected
        THEN Outcome(STATE_SEARCH, cm, pushStartTime, lastEnemyDistance, <<>>, 0)
        ELSE Outcome(STATE_BORDER_ESCAPE, cm, pushStartTime,
                     lastEnemyDistance, <<>>, 0)

\* executeBorderEscape: one zone's two-phase maneuver.  first is the command
\* of the first phase, turn the command of the rotate phase, d1 and d2 the
\* phase durations.
EscapeZone(cm, sst, detected, first, turn, d1, d2) ==
    LET elapsed == cm - sst
    IN  IF elapsed < d1
        THEN Outcome(STATE_BORDER_ESCAPE, sst, pushStartTime, lastEnemyDistance,
                     <<first>>, 0)
        ELSE IF elapsed < d1 + d2
        THEN Outcome(STATE_BORDER_ESCAPE, sst, pushStartTime, lastEnemyDistance,
                     <<turn>>, 0)
        ELSE IF ~detected
        THEN Outcome(STATE_SEARCH, cm, pushStartTime, lastEnemyDistance, <<>>, 0)
        ELSE Outcome(STATE_BORDER_ESCAPE, cm - d1, pushStartTime,
                     lastEnemyDistance, <<>>, 0)

\* Variant of FrontTurn: equal magnitudes turn counter-clockwise
FrontTurn_TieTurnsLeft(b, frValue, flValue) ==
    IF b.fr /\ ~b.fl THEN RotateCounterClockwise(SPEED_MAX)
    ELSE IF b.fl /\ ~b.fr THEN RotateClockwise(SPEED_MAX)
    ELSE IF frValue >= flValue THEN RotateCounterClockwise(SPEED_MAX)
    ELSE RotateClockwise(SPEED_MAX)

\* executeBorderEscape: turn direction of the front zone; frValue and flValue
\* are the analogRead() values taken inside the handler
FrontTurn(b, frValue, flValue) ==
    IF b.fr /\ ~b.fl THEN RotateCounterClockwise(SPEED_MAX)
    ELSE IF b.fl /\ ~b.fr THEN RotateClockwise(SPEED_MAX)
    ELSE IF frValue > flValue THEN RotateCounterClockwise(SPEED_MAX)
    ELSE RotateClockwise(SPEED_MAX)

\* executeBorderEscape: the pass reaches the second analogRead() of the two
\* front sensors (front zone, rotate phase, both flags set)
FrontReread(st, cm, sst, b) ==
    /\ st = STATE_BORDER_ESCAPE
    /\ b.fr /\ b.fl
    /\ cm - sst >= BORDER_REVERSE_TIME
    /\ cm - sst < BORDER_REVERSE_TIME + BORDER_TURN_TIME

SideTurn(b) ==
    IF b.l THEN RotateClockwise(SPEED_MAX) ELSE RotateCounterClockwise(SPEED_MAX)

\* Variant of ExecuteBorderEscape: the clearance test comes first, so the
\* escape ends as soon as every sensor reads clear
ExecuteBorderEscape_ExitWhenClear(cm, sst, b, frValue, flValue) ==
    IF ~b.detected
    THEN Outcome(STATE_SEARCH, cm, pushStartTime, lastEnemyDistance, <<>>, 0)
    ELSE IF b.fr \/ b.fl
    THEN EscapeZone(cm, sst, b.detected, MoveBackward(SPEED_MAX),
                    FrontTurn(b, frValue, flValue),
                    BORDER_REVERSE_TIME, BORDER_TURN_TIME)
    ELSE IF b.r \/ b.l
    THEN EscapeZone(cm, sst, b.detected, MoveBackward(SPEED_MAX),
                    SideTurn(b), BORDER_REV_SIDE, BORDER_TURN_SIDE)
    ELSE EscapeZone(cm, sst, b.detected, MoveForward(SPEED_MAX),
                    RotateClockwise(SPEED_MAX),
                    BORDER_REV_BACK, BORDER_TURN_BACK)

\* Variant of ExecuteBorderEscape: the side zone is tested before the front
\* zone
ExecuteBorderEscape_SideFirst(cm, sst, b, frValue, flValue) ==
    IF b.r \/ b.l
    THEN EscapeZone(cm, sst, b.detected, MoveBackward(SPEED_MAX),
                    SideTurn(b), BORDER_REV_SIDE, BORDER_TURN_SIDE)
    ELSE IF b.fr \/ b.fl
    THEN EscapeZone(cm, sst, b.detected, MoveBackward(SPEED_MAX),
                    FrontTurn(b, frValue, flValue),
                    BORDER_REVERSE_TIME, BORDER_TURN_TIME)
    ELSE IF b.b
    THEN EscapeZone(cm, sst, b.detected, MoveForward(SPEED_MAX),
                    RotateClockwise(SPEED_MAX),
                    BORDER_REV_BACK, BORDER_TURN_BACK)
    ELSE Outcome(STATE_BORDER_ESCAPE, sst, pushStartTime, lastEnemyDistance,
                 <<>>, 0)

\* Variant of ExecuteBorderEscape: with no flag set the motors are stopped
ExecuteBorderEscape_StopsWhenClear(cm, sst, b, frValue, flValue) ==
    IF b.fr \/ b.fl
    THEN EscapeZone(cm, sst, b.detected, MoveBackward(SPEED_MAX),
                    FrontTurn(b, frValue, flValue),
                    BORDER_REVERSE_TIME, BORDER_TURN_TIME)
    ELSE IF b.r \/ b.l
    THEN EscapeZone(cm, sst, b.detected, MoveBackward(SPEED_MAX),
                    SideTurn(b), BORDER_REV_SIDE, BORDER_TURN_SIDE)
    ELSE IF b.b
    THEN EscapeZone(cm, sst, b.detected, MoveForward(SPEED_MAX),
                    RotateClockwise(SPEED_MAX),
                    BORDER_REV_BACK, BORDER_TURN_BACK)
    ELSE Outcome(STATE_BORDER_ESCAPE, sst, pushStartTime, lastEnemyDistance,
                 <<StopMotors>>, 0)

\* Variant of ExecuteBorderEscape: while an escape is under way the zone is
\* the one of the flags read by the pass before
ExecuteBorderEscape_ZoneLatched(cm, sst, b, frValue, flValue) ==
    LET held == currentState = STATE_BORDER_ESCAPE /\ borderDetected
        z == IF held
             THEN [fr |-> borderFrontRight, fl |-> borderFrontLeft,
                   r |-> borderRight, l |-> borderLeft, b |-> borderBack,
                   detected |-> b.detected]
             ELSE b
    IN  IF z.fr \/ z.fl
        THEN EscapeZone(cm, sst, z.detected, MoveBackward(SPEED_MAX),
                        FrontTurn(z, frValue, flValue),
                        BORDER_REVERSE_TIME, BORDER_TURN_TIME)
        ELSE IF z.r \/ z.l
        THEN EscapeZone(cm, sst, z.detected, MoveBackward(SPEED_MAX),
                        SideTurn(z), BORDER_REV_SIDE, BORDER_TURN_SIDE)
        ELSE IF z.b
        THEN EscapeZone(cm, sst, z.detected, MoveForward(SPEED_MAX),
                        RotateClockwise(SPEED_MAX),
                        BORDER_REV_BACK, BORDER_TURN_BACK)
        ELSE Outcome(STATE_BORDER_ESCAPE, sst, pushStartTime, lastEnemyDistance,
                     <<>>, 0)

ExecuteBorderEscape(cm, sst, b, frValue, flValue) ==
    LET frontBorder == b.fr \/ b.fl
        sideBorder  == b.r \/ b.l
        backBorder  == b.b
    IN  IF frontBorder
        THEN EscapeZone(cm, sst, b.detected, MoveBackward(SPEED_MAX),
                        FrontTurn(b, frValue, flValue),
                        BORDER_REVERSE_TIME, BORDER_TURN_TIME)
        ELSE IF sideBorder
        THEN EscapeZone(cm, sst, b.detected, MoveBackward(SPEED_MAX),
                        SideTurn(b), BORDER_REV_SIDE, BORDER_TURN_SIDE)
        ELSE IF backBorder
        THEN EscapeZone(cm, sst, b.detected, MoveForward(SPEED_MAX),
                        RotateClockwise(SPEED_MAX),
                        BORDER_REV_BACK, BORDER_TURN_BACK)
        ELSE Outcome(STATE_BORDER_ESCAPE, sst, pushStartTime, lastEnemyDistance,
                     <<>>, 0)

\* loop(): the switch on currentState
Dispatch(st, cm, sst, b, enemy, dF, frValue, flValue) ==
    CASE st = STATE_OPENING_MOVE -> ExecuteOpeningMove(cm, sst)
      [] st = STATE_SEARCH -> ExecuteSearch(cm, sst, enemy)
      [] st = STATE_ATTACK -> ExecuteAttack(cm, sst, enemy, dF)
      [] st = STATE_PUSH -> ExecutePush(cm, sst, enemy, dF)
      [] st = STATE_BORDER_ESCAPE -> ExecuteBorderEscape(cm, sst, b, frValue, flValue)
      [] OTHER -> Outcome(st, sst, pushStartTime, lastEnemyDistance, <<>>, 0)

----------------------------------------------------------------------------
(* Diagnostics.  A line written to Serial is recorded by the state name in  *)
(* its bracketed prefix (empty for the border alarm of loop()) and by its   *)
(* text.                                                                    *)

Event(tag, text) == [tag |-> tag, text |-> text]

\* loop(): the alarm printed by the border priority rule
BorderAlarm(detected, st) ==
    IF detected /\ st # STATE_BORDER_ESCAPE
    THEN <<Event("", "BORDER DETECTED - EMERGENCY ESCAPE")>>
    ELSE <<>>

\* Variant of OpeningMoveEvents: the end of the opening is not announced
OpeningMoveEvents_Silent(cm, sst) ==
    LET elapsed == cm - sst
    IN  IF elapsed < OPENING_SPIN_TIME
        THEN <<Event("OPENING", "Spinning 180 degrees")>>
        ELSE IF elapsed < OPENING_SPIN_TIME + OPENING_CHARGE_TIME
        THEN <<Event("OPENING", "Charging center")>>
        ELSE <<>>

OpeningMoveEvents(cm, sst) ==
    LET elapsed == cm - sst
    IN  IF elapsed < OPENING_SPIN_TIME
        THEN <<Event("OPENING", "Spinning 180 degrees")>>
        ELSE IF elapsed < OPENING_SPIN_TIME + OPENING_CHARGE_TIME
        THEN <<Event("OPENING", "Charging center")>>
        ELSE <<Event("OPENING", "Complete - Starting search")>>

SearchEvents(enemy) ==
    <<Event("SEARCH", "Scanning")>> \o
    (IF enemy.detected
     THEN IF enemy.direction = 0
          THEN <<Event("SEARCH", "ENEMY FRONT - ATTACKING")>>
          ELSE <<Event("SEARCH", "Enemy detected on")>>
     ELSE <<>>)

AttackEvents(cm, sst, enemy, dF) ==
    <<Event("ATTACK", "Distance")>> \o
    (IF AttackTargetLost(enemy, dF) /\ AttackGraceOver(cm, sst)
     THEN <<Event("ATTACK", "Enemy lost - returning to search")>>
     ELSE IF AttackCloseRange(dF)
     THEN <<Event("ATTACK", "CLOSE RANGE - ENGAGING PUSH")>>
     ELSE IF dF > ENEMY_MEDIUM
     THEN <<Event("ATTACK", "Arc approach (far)")>>
     ELSE <<Event("ATTACK", "Closing distance (medium)")>>)

PushEvents(cm, enemy, dF) ==
    <<Event("PUSH", "MAXIMUM POWER")>> \o
    (IF PushDeadlock(cm, dF)
     THEN <<Event("PUSH", "DEADLOCK! Repositioning")>>
     ELSE IF PushEnemyEscaped(enemy, dF)
     THEN <<Event("PUSH", "Enemy escaped")>>
     ELSE <<>>)

\* executeBorderEscape: the lines of one zone; retryText is the line printed
\* when the maneuver is extended (only the front zone prints one)
ZoneEvents(cm, sst, detected, firstText, turnText, retryText, d1, d2) ==
    LET elapsed == cm - sst
    IN  IF elapsed < d1 THEN <<Event("ESCAPE", firstText)>>
        ELSE IF elapsed < d1 + d2 THEN <<Event("ESCAPE", turnText)>>
        ELSE IF ~detected THEN <<Event("ESCAPE", "Clear! Returning to search")>>
        ELSE retryText

EscapeEvents(cm, sst, b) ==
    <<Event("ESCAPE", "Sensors")>> \o
    (IF b.fr \/ b.fl
     THEN ZoneEvents(cm, sst, b.detected, "Reversing from front border",
                     "Turning 135 away",
                     <<Event("ESCAPE", "Still at border - extending maneuver")>>,
                     BORDER_REVERSE_TIME, BORDER_TURN_TIME)
     ELSE IF b.r \/ b.l
     THEN ZoneEvents(cm, sst, b.detected, "Reversing from side border",
                     "Turning 90 away", <<>>, BORDER_REV_SIDE, BORDER_TURN_SIDE)
     ELSE IF b.b
     THEN ZoneEvents(cm, sst, b.detected, "Moving forward from back border",
                     "Turning 90", <<>>, BORDER_REV_BACK, BORDER_TURN_BACK)
     ELSE <<>>)

\* The lines of the handler the switch of loop() runs
HandlerEvents(st, cm, sst, b, enemy, dF) ==
    CASE st = STATE_OPENING_MOVE -> OpeningMoveEvents(cm, sst)
      [] st = STATE_SEARCH -> SearchEvents(enemy)
      [] st = STATE_ATTACK -> AttackEvents(cm, sst, enemy, dF)
      [] st = STATE_PUSH -> PushEvents(cm, enemy, dF)
      [] st = STATE_BORDER_ESCAPE -> EscapeEvents(cm, sst, b)
      [] OTHER -> <<>>

----------------------------------------------------------------------------
(* The state machine *)

----------------------------------------------------------------------------
(* The train controller: configuration and the state setup() leaves *)

ROUTE == <<"station-a", "station-b", "station-c">>

ROUTE_SIZE == 3

FIRST_STOP_TIME == 5000

REGULAR_STOP_TIME == 3000

DEBOUNCE_DELAY == 50

\* connectWiFi() polls WiFi.status() up to 30 times, delay(500) apart
CONNECT_ATTEMPTS == 30

CONNECT_DELAY_MS == 500

\* delay(1000) between the "stopped" and the "loading" telemetry
LOADING_DELAY_MS == 1000

LOW == "LOW"

HIGH == "HIGH"

\* nullptr as the station id of sendTelemetry()
NULL == "null"

\* One sendTelemetry() call: posted tells whether WiFi was connected, so that
\* the call went on to the HTTP POST
Telemetry(status, stationId, connected) ==
    [status |-> status, station |-> stationId, posted |-> connected]

\* The train at the end of setup(): motor running, WiFi joined after one
\* delay(500), the initial "moving" telemetry sent
TrainSetup ==
    /\ trainClock = CONNECT_DELAY_MS
    /\ motorPin = HIGH
    /\ currentStationIndex = 0
    /\ whiteCount = 0
    /\ isPaused = FALSE
    /\ ignoreWhite = FALSE
    /\ pauseStart = 0
    /\ pauseDuration = 0
    /\ stableState = LOW
    /\ lastStableState = LOW
    /\ lastDebounceTime = 0
    /\ lastReading = LOW
    /\ telemetryLog = <<Telemetry("moving", NULL, TRUE)>>
    /\ lastTelemetry = Telemetry("moving", NULL, TRUE)
    /\ arrivedAt = 0
    /\ departedAt = 0
    /\ arrivals = 0

\* The variables of the station card reader
stationVars == <<stationClock, lastCardReadTime, lastCardUID, totalCardsScanned,
                 successfulValidations, failedValidations, lastCheckTime,
                 reconnectAttempts, cardSeen, readTime, validation, httpLog,
                 lastAttemptTime, attemptWaits>>

----------------------------------------------------------------------------
(* The station card reader: configuration and the state setup() leaves *)

LED_DISPLAY_TIME == 2000

CARD_COOLDOWN == 1500

MAX_HTTP_RETRIES == 2

\* ensureWiFiConnected() looks at the link once in 10000 ms
WIFI_CHECK_INTERVAL == 10000

\* delay(100) after WiFi.disconnect(), then polls of delay(100) for 5000 ms
RECONNECT_SETTLE_MS == 100

RECONNECT_POLL_MS == 100

RECONNECT_TIMEOUT_MS == 5000

\* delay(1000 * attempt) before a retry
RETRY_DELAY_MS == 1000

\* blinkErrorPattern(): three rounds of two delay(150)
BLINK_ROUNDS == 3

BLINK_MS == 150

\* delay(500) at the end of a pass that processed a card
NEXT_CARD_DELAY_MS == 500

\* millis() at the end of setup(): its delays of 1000, 200, 200, 500 and
\* 1000 ms and one delay(500) of connectToWiFi()
STATION_SETUP_MS == 3400

\* The reader at the end of setup(), WiFi joined
StationSetup ==
    /\ stationClock = STATION_SETUP_MS
    /\ lastCardReadTime = 0
    /\ lastCardUID = ""
    /\ totalCardsScanned = 0
    /\ successfulValidations = 0
    /\ failedValidations = 0
    /\ lastCheckTime = 0
    /\ reconnectAttempts = 0
    /\ cardSeen = ""
    /\ readTime = 0
    /\ validation = "none"
    /\ httpLog = <<>>
    /\ lastAttemptTime = 0
    /\ attemptWaits = <<>>

----------------------------------------------------------------------------
(* The sumo robot: setup() and loop() *)

\* The state at the end of setup(): the border flags hold the reading of
\* setup()'s sensor test, the motors are stopped, the countdown has run.
\* The other boards of the repository are at the end of their own setup().
Init ==
    /\ TrainSetup
    /\ StationSetup
    /\ currentState = STATE_OPENING_MOVE
    /\ prevState = STATE_INIT
    /\ clock = SETUP_COUNTDOWN_MS
    /\ currentMillis = SETUP_COUNTDOWN_MS
    /\ stateStartTime = SETUP_COUNTDOWN_MS
    /\ pushStartTime = 0
    /\ lastEnemyDistance = INVALID_DISTANCE
    /\ lastUltraFront = 0
    /\ lastUltraSide = 0
    /\ distanceFront = INVALID_DISTANCE
    /\ distanceLeft = INVALID_DISTANCE
    /\ distanceRight = INVALID_DISTANCE
    /\ enemyDetected = FALSE
    /\ enemyDirection = 0
    /\ \E ir \in IRSample :
         LET b == ReadAllIRSensors(ir)
         IN  /\ irValues = ir
             /\ borderFrontRight = b.fr
             /\ borderFrontLeft = b.fl
             /\ borderRight = b.r
             /\ borderLeft = b.l
             /\ borderBack = b.b
             /\ borderDetected = b.detected
    /\ motors = StopMotors
    /\ driveLog = <<>>
    /\ requestLeft = 0
    /\ requestRight = 0
    /\ frSample = 0
    /\ flSample = 0
    /\ serialLog = <<Event("", "GO! GO! GO!")>>

\* The state whose handler the switch of loop() runs in a pass that reads ir
Dispatched(ir) ==
    BorderPriority(ReadAllIRSensors(ir).detected, currentState, stateStartTime, 0).st

\* One pass of loop().  step is the time since the end of the previous pass,
\* ir the analogRead() values, echoF/echoL/echoR the pulseIn() results (used
\* when the sensor is polled), frValue/flValue the analogRead() values taken
\* inside the escape handler.  cm, b, pri, us, enemy and out are the values
\* the pass computes, each bound once: the sample of millis(), the border
\* flags, the outcome of the border check, the range readings, the enemy
\* estimate and the outcome of the handler.
Loop(step, ir, echoF, echoL, echoR, frValue, flValue) ==
    \E cm \in {clock + step} :
    \E b \in {ReadAllIRSensors(ir)} :
    \E pri \in {BorderPriority(b.detected, currentState, stateStartTime, cm)} :
    \E us \in {ReadUltrasonicSensors(cm, echoF, echoL, echoR)} :
    \E enemy \in {UpdateEnemyStatus(us.front, us.left, us.right, enemyDirection)} :
    \E out \in {Dispatch(pri.st, cm, pri.sst, b, enemy, us.front, frValue, flValue)} :
        /\ cm <= MaxTime
        /\ prevState' = currentState
        /\ currentMillis' = cm
        /\ clock' = cm + out.wait
        /\ irValues' = ir
        /\ serialLog' = BorderAlarm(b.detected, currentState) \o
                        HandlerEvents(pri.st, cm, pri.sst, b, enemy, us.front)
        /\ borderFrontRight' = b.fr
        /\ borderFrontLeft' = b.fl
        /\ borderRight' = b.r
        /\ borderLeft' = b.l
        /\ borderBack' = b.b
        /\ borderDetected' = b.detected
        /\ distanceFront' = us.front
        /\ distanceLeft' = us.left
        /\ distanceRight' = us.right
        /\ lastUltraFront' = us.lastFront
        /\ lastUltraSide' = us.lastSide
        /\ enemyDetected' = enemy.detected
        /\ enemyDirection' = enemy.direction
        /\ currentState' = out.st
        /\ stateStartTime' = out.sst
        /\ pushStartTime' = out.pst
        /\ lastEnemyDistance' = out.led
        /\ driveLog' = out.log
        /\ motors' = IF out.log = <<>> THEN motors ELSE out.log[Len(out.log)]
        /\ requestLeft' = IF out.log = <<>> THEN requestLeft
                          ELSE RequestOf(out.log[Len(out.log)]).left
        /\ requestRight' = IF out.log = <<>> THEN requestRight
                           ELSE RequestOf(out.log[Len(out.log)]).right
        /\ frSample' = IF FrontReread(pri.st, cm, pri.sst, b) THEN frValue ELSE 0
        /\ flSample' = IF FrontReread(pri.st, cm, pri.sst, b) THEN flValue ELSE 0
        /\ UNCHANGED <<trainVars, stationVars>>

\* The passes of loop(), one action per handler the switch runs
LoopOpeningMove ==
    \E step \in Steps, ir \in IRSample, echoF \in EchoFront, echoL \in EchoSilent :
        /\ Dispatched(ir) = STATE_OPENING_MOVE
        /\ Loop(step, ir, echoF, echoL, 0, 0, 0)

LoopSearch ==
    \E step \in Steps, ir \in IRSample, echoF \in EchoFront, echoL \in EchoSilent :
        /\ Dispatched(ir) = STATE_SEARCH
        /\ Loop(step, ir, echoF, echoL, 0, 0, 0)

LoopAttack ==
    \E step \in Steps, ir \in IRSample, echoF \in EchoFront, echoL \in EchoSilent :
        /\ Dispatched(ir) = STATE_ATTACK
        /\ Loop(step, ir, echoF, echoL, 0, 0, 0)

LoopPush ==
    \E step \in Steps, ir \in IRSample, echoF \in EchoFront, echoL \in EchoSilent :
        /\ Dispatched(ir) = STATE_PUSH
        /\ Loop(step, ir, echoF, echoL, 0, 0, 0)

\* The front sensors are read a second time only in the rotate phase of the
\* front maneuver with both flags set
RereadDue(step, ir) ==
    LET cm == clock + step
        b == ReadAllIRSensors(ir)
        pri == BorderPriority(b.detected, currentState, stateStartTime, cm)
    IN  FrontReread(pri.st, cm, pri.sst, b)

LoopBorderEscape ==
    \E step \in Steps, ir \in IRSample, echoF \in EchoFront, echoL \in EchoSilent :
      \E frValue \in (IF RereadDue(step, ir) THEN RereadFR ELSE {ir.fr}),
         flValue \in (IF RereadDue(step, ir) THEN RereadFL ELSE {ir.fl}) :
        /\ Dispatched(ir) = STATE_BORDER_ESCAPE
        /\ Loop(step, ir, echoF, echoL, 0, frValue, flValue)

Next ==
    \/ LoopOpeningMove
    \/ LoopSearch
    \/ LoopAttack
    \/ LoopPush
    \/ LoopBorderEscape

\* The robot with the border sensors and the front range sensor live; the
\* side range sensors never receive an echo
Spec == Init /\ [][Next]_vars

\* The robot on a ring whose border it never sees: every border sensor reads
\* the black surface in every pass, the front range readings vary widely and
\* the left range sensor is live
ClearOpeningMove ==
    \E step \in Steps, ir \in IRClear, echoF \in EchoFrontWide, echoL \in EchoSide :
        /\ Dispatched(ir) = STATE_OPENING_MOVE
        /\ Loop(step, ir, echoF, echoL, 0, 0, 0)

ClearSearch ==
    \E step \in Steps, ir \in IRClear, echoF \in EchoFrontWide, echoL \in EchoSide :
        /\ Dispatched(ir) = STATE_SEARCH
        /\ Loop(step, ir, echoF, echoL, 0, 0, 0)

ClearAttack ==
    \E step \in Steps, ir \in IRClear, echoF \in EchoFrontWide, echoL \in EchoSide :
        /\ Dispatched(ir) = STATE_ATTACK
        /\ Loop(step, ir, echoF, echoL, 0, 0, 0)

ClearPush ==
    \E step \in Steps, ir \in IRClear, echoF \in EchoFrontWide, echoL \in EchoSide :
        /\ Dispatched(ir) = STATE_PUSH
        /\ Loop(step, ir, echoF, echoL, 0, 0, 0)

ClearNext ==
    \/ ClearOpeningMove
    \/ ClearSearch
    \/ ClearAttack
    \/ ClearPush

ClearSpec == Init /\ [][ClearNext]_vars

\* The motion layer on its own: any of its entry points is called with any
\* of the signed speeds
DriveCall(l, r) ==
    /\ requestLeft' = l
    /\ requestRight' = r
    /\ driveLog' = <<motors'>>
    /\ UNCHANGED <<currentState, prevState, clock, currentMillis, stateStartTime,
                   pushStartTime, lastEnemyDistance, lastUltraFront,
                   lastUltraSide, distanceFront, distanceLeft, distanceRight,
                   enemyDetected, enemyDirection, borderFrontRight,
                   borderFrontLeft, borderRight, borderLeft, borderBack,
                   borderDetected, frSample, flSample, irValues, serialLog>>
    /\ UNCHANGED <<trainVars, stationVars>>

CallSetMotors ==
    \E l \in SpeedRequests, r \in SpeedRequests :
        /\ motors' = SetMotors(l, r)
        /\ DriveCall(l, r)

CallStopMotors ==
    /\ motors' = StopMotors
    /\ DriveCall(0, 0)

CallMoveForward ==
    \E speed \in SpeedRequests :
        /\ motors' = MoveForward(speed)
        /\ DriveCall(speed, speed)

CallMoveBackward ==
    \E speed \in SpeedRequests :
        /\ motors' = MoveBackward(speed)
        /\ DriveCall(-speed, -speed)

CallRotateClockwise ==
    \E speed \in SpeedRequests :
        /\ motors' = RotateClockwise(speed)
        /\ DriveCall(speed, -speed)

CallRotateCounterClockwise ==
    \E speed \in SpeedRequests :
        /\ motors' = RotateCounterClockwise(speed)
        /\ DriveCall(-speed, speed)

MotorNext ==
    \/ CallSetMotors
    \/ CallStopMotors
    \/ CallMoveForward
    \/ CallMoveBackward
    \/ CallRotateClockwise
    \/ CallRotateCounterClockwise

MotorSpec == Init /\ [][MotorNext]_vars

\* The first moments of a match on a ring whose border is not seen, with
\* loop() passes 25 or 100 ms apart and the three range sensors live
FineLoop(step, echoF, echoL, echoR) ==
    /\ clock + step <= SETUP_COUNTDOWN_MS + FineHorizon
    /\ \E ir \in IRClear : Loop(step, ir, echoF, echoL, echoR, 0, 0)

\* pulseIn() results of a pass: drawn for the sensors the pass polls
FineFront(step) == IF FrontDue(clock + step) THEN EchoFront ELSE EchoSilent

FineFlank(step) == IF SideDue(clock + step) THEN EchoFlank ELSE EchoSilent

FineOpeningMove ==
    \E step \in FineSteps :
      \E echoF \in FineFront(step), echoL \in FineFlank(step), echoR \in FineFlank(step) :
        /\ currentState = STATE_OPENING_MOVE
        /\ FineLoop(step, echoF, echoL, echoR)

FineSearch ==
    \E step \in FineSteps :
      \E echoF \in FineFront(step), echoL \in FineFlank(step), echoR \in FineFlank(step) :
        /\ currentState = STATE_SEARCH
        /\ FineLoop(step, echoF, echoL, echoR)

FineAttack ==
    \E step \in FineSteps :
      \E echoF \in FineFront(step), echoL \in FineFlank(step), echoR \in FineFlank(step) :
        /\ currentState = STATE_ATTACK
        /\ FineLoop(step, echoF, echoL, echoR)

FinePush ==
    \E step \in FineSteps :
      \E echoF \in FineFront(step), echoL \in FineFlank(step), echoR \in FineFlank(step) :
        /\ currentState = STATE_PUSH
        /\ FineLoop(step, echoF, echoL, echoR)

FineNext ==
    \/ FineOpeningMove
    \/ FineSearch
    \/ FineAttack
    \/ FinePush

\* Init with every border sensor over the black surface
FineInit == Init /\ ~borderDetected

FineSpec == FineInit /\ [][FineNext]_vars

----------------------------------------------------------------------------
(* Properties.  In an action formula the unprimed variables are the state  *)
(* before a loop() pass and the primed ones the state after it; the primed *)
(* border flags and distances are the readings of that pass, and           *)
(* currentMillis' is its clock sample.                                     *)

\* Time on the maneuver timer when the pass samples the clock
ElapsedInState == currentMillis' - stateStartTime

\* First-phase and two-phase duration of the escape zone selected by the
\* flags of a pass (front before side before back; with no flag set, the
\* shortest of the three)
EscapeFirstTime(front, side) ==
    IF front THEN 300 ELSE IF side THEN 200 ELSE 300

EscapeFullTime(front, side, back) ==
    IF front THEN 300 + 400
    ELSE IF side THEN 200 + 300
    ELSE IF back THEN 300 + 300
    ELSE 200 + 300

\* C1: on every pass, if a border flag is set and the state before the pass
\* is not BorderEscape, the state after the pass is BorderEscape, whatever
\* the range readings are and whichever state was current.
C1_BorderPriority ==
    [][(borderDetected' /\ currentState # STATE_BORDER_ESCAPE)
          => currentState' = STATE_BORDER_ESCAPE]_vars

\* A push at 25 cm from a detected enemy has been interrupted by the border
C1_Witness ==
    /\ prevState = STATE_PUSH
    /\ currentState = STATE_BORDER_ESCAPE
    /\ borderDetected
    /\ enemyDetected
    /\ distanceFront = 25
    /\ stateStartTime = currentMillis

\* C2: in BorderEscape, a pass that reads every border sensor clear once the
\* longest maneuver cycle (300 + 400 ms) has run on the timer makes the
\* state Search.
C2_EscapeCompletes ==
    [][(/\ currentState = STATE_BORDER_ESCAPE
        /\ ~borderDetected'
        /\ ElapsedInState >= 300 + 400)
          => currentState' = STATE_SEARCH]_vars

TransitionGraph ==
    {<<STATE_OPENING_MOVE, STATE_SEARCH>>,
     <<STATE_SEARCH, STATE_ATTACK>>,
     <<STATE_ATTACK, STATE_SEARCH>>,
     <<STATE_ATTACK, STATE_PUSH>>,
     <<STATE_PUSH, STATE_ATTACK>>,
     <<STATE_PUSH, STATE_SEARCH>>,
     <<STATE_OPENING_MOVE, STATE_BORDER_ESCAPE>>,
     <<STATE_SEARCH, STATE_BORDER_ESCAPE>>,
     <<STATE_ATTACK, STATE_BORDER_ESCAPE>>,
     <<STATE_PUSH, STATE_BORDER_ESCAPE>>,
     <<STATE_BORDER_ESCAPE, STATE_SEARCH>>}

C10_TransitionGraph ==
    [][/\ currentState # STATE_INIT
       /\ currentState' # STATE_INIT
       /\ currentState' # currentState
            => <<currentState, currentState'>> \in TransitionGraph]_vars

\* The deepest edge has been taken: deadlock recovery led from Push to Attack
C10_Witness ==
    /\ prevState = STATE_PUSH
    /\ currentState = STATE_ATTACK

\* The drive commands named by the claims, as channel duties
Duty(lf, lb, rf, rb) == [lf |-> lf, lb |-> lb, rf |-> rf, rb |-> rb]

ArcFar == Duty(153, 0, 230, 0)

ArcMedium == Duty(165, 0, 204, 0)

FullForward == Duty(255, 0, 255, 0)

FullReverse == Duty(0, 255, 0, 255)

FullClockwise == Duty(255, 0, 0, 255)

\* The pass runs the Attack handler: Attack is current and no border is seen
AttackPass == currentState = STATE_ATTACK /\ ~borderDetected'

\* The pass runs the Push handler
PushPass == currentState = STATE_PUSH /\ ~borderDetected'

\* What an Attack pass does by the distance thresholds alone
ThresholdOutcome ==
    IF distanceFront' <= 30
    THEN currentState' = STATE_PUSH
    ELSE /\ currentState' = STATE_ATTACK
         /\ driveLog' = <<IF distanceFront' > 80 THEN ArcFar ELSE ArcMedium>>

\* C5 as stated: on every Attack pass with no border, d <= ENEMY_CLOSE makes
\* the state Push and d > ENEMY_CLOSE leaves it Attack with the arc selected
\* by ENEMY_MEDIUM.
C5_ThresholdMonotonicity ==
    [][AttackPass => ThresholdOutcome]_vars

\* C5 amended: the same on every Attack pass on which the lost-target rule
\* does not fire, that is, the enemy is present with d <= ENEMY_LOST or no
\* more than 1000 ms have passed since Attack was entered.
C5_ThresholdUnlessLost ==
    [][(/\ AttackPass
        /\ \/ enemyDetected' /\ distanceFront' <= 50
           \/ ElapsedInState <= 1000)
          => ThresholdOutcome]_vars

\* An Attack pass at 40 cm, later than the grace period, has commanded the
\* medium arc
C5_Witness ==
    /\ prevState = STATE_ATTACK
    /\ currentState = STATE_ATTACK
    /\ distanceFront = 40
    /\ currentMillis - stateStartTime > 1000
    /\ driveLog = <<ArcMedium>>

\* C6: on a Push pass with no border whose frontal reading equals that of
\* the pass before, the state stays Push while no more than DEADLOCK_TIME
\* has passed since Push was entered, and once more has passed the pass
\* commands reverse, then rotate, and the state becomes Attack.
C6_DeadlockRecovery ==
    [][(PushPass /\ distanceFront' = distanceFront)
          => IF currentMillis' - pushStartTime > 2000
             THEN /\ currentState' = STATE_ATTACK
                  /\ driveLog' = <<FullReverse, FullClockwise>>
             ELSE currentState' = STATE_PUSH]_vars

\* C7: the stored distance of a range sensor changes only to a valid
\* measurement (2..400 cm); an invalid measurement leaves it as it was.
C7_InvalidReadKeepsDistance ==
    [][/\ distanceFront' # distanceFront => distanceFront' \in 2..400
       /\ distanceLeft' # distanceLeft => distanceLeft' \in 2..400
       /\ distanceRight' # distanceRight => distanceRight' \in 2..400]_vars

\* C8 as stated: once the pass that takes Search to Attack on a frontal
\* reading of 100 cm has run, the far-band arc is the drive command in
\* force, and once the pass that takes Attack to Push on a reading of 25 cm
\* has run, full forward is.
C8_Scenario ==
    /\ (/\ prevState = STATE_SEARCH
        /\ currentState = STATE_ATTACK
        /\ distanceFront = 100) => motors = ArcFar
    /\ (/\ prevState = STATE_ATTACK
        /\ currentState = STATE_PUSH
        /\ distanceFront = 25) => motors = FullForward

\* Attack (Push) was entered by the pass before this one
AttackJustEntered ==
    /\ AttackPass
    /\ prevState = STATE_SEARCH
    /\ stateStartTime = currentMillis

PushJustEntered ==
    /\ PushPass
    /\ prevState = STATE_ATTACK
    /\ pushStartTime = currentMillis

\* C8 amended: a Search pass with no border and a frontal reading of 100 cm
\* makes the state Attack and issues no drive command; the pass after it
\* commands the far-band arc if it still reads 100 cm, and if it reads 25 cm
\* it makes the state Push and issues no drive command; the pass after that
\* commands full forward if it still reads 25 cm.
C8_ScenarioNextPass ==
    [][/\ (/\ currentState = STATE_SEARCH
           /\ ~borderDetected'
           /\ distanceFront' = 100)
             => currentState' = STATE_ATTACK /\ driveLog' = <<>>
       /\ (AttackJustEntered /\ distanceFront' = 100)
             => currentState' = STATE_ATTACK /\ driveLog' = <<ArcFar>>
       /\ (AttackJustEntered /\ distanceFront' = 25)
             => currentState' = STATE_PUSH /\ driveLog' = <<>>
       /\ (PushJustEntered /\ distanceFront' = 25)
             => currentState' = STATE_PUSH /\ driveLog' = <<FullForward>>]_vars

\* The first Push pass after an entry at 25 cm has commanded full forward
C8_Witness ==
    /\ prevState = STATE_PUSH
    /\ currentState = STATE_PUSH
    /\ distanceFront = 25
    /\ stateStartTime = pushStartTime
    /\ currentMillis - pushStartTime > 0
    /\ currentMillis - pushStartTime <= 300
    /\ motors = FullForward
    /\ driveLog = <<FullForward>>

\* C9: Attack is not left for Search by a pass before which the target was
\* not lost (present, frontal distance <= ENEMY_LOST): a loss that began
\* after the previous pass has lasted less than the grace period.
C9_AttackGrace ==
    [][(/\ currentState = STATE_ATTACK
        /\ enemyDetected
        /\ distanceFront <= 50
        /\ currentMillis' - currentMillis < 1000)
          => currentState' # STATE_SEARCH]_vars

FullCounterClockwise == Duty(0, 255, 255, 0)

SearchClockwise == Duty(180, 0, 0, 180)

SearchCounterClockwise == Duty(0, 180, 180, 0)

\* The pass runs the Search handler
SearchPass == currentState = STATE_SEARCH /\ ~borderDetected'

C12_EnemyEstimate ==
    LET front == distanceFront \in 10..150
        left  == distanceLeft \in 10..150
        right == distanceRight \in 10..150
    IN  /\ enemyDetected <=> (front \/ left \/ right)
        /\ (enemyDetected /\ front) => enemyDirection = 0
        /\ (~front /\ left /\ ~right) => enemyDirection = -1
        /\ (~front /\ right /\ ~left) => enemyDirection = 1
        /\ (~front /\ left /\ right)
              => enemyDirection = (IF distanceLeft < distanceRight THEN -1 ELSE 1)

\* Both flanks have reported the same distance with nothing in front, and
\* the estimate is right
C12_Witness ==
    /\ currentMillis > SETUP_COUNTDOWN_MS
    /\ distanceFront = 999
    /\ distanceLeft = 25
    /\ distanceRight = 25
    /\ enemyDetected
    /\ enemyDirection = 1

\* C13: on an OpeningMove pass with no border flag, whatever the range
\* sensors read: with less than 500 ms since entry the state stays
\* OpeningMove and the drive command is clockwise rotation at full speed;
\* from 500 ms to less than 1300 ms it stays OpeningMove and the command is
\* straight forward at full speed; from 1300 ms on the state becomes Search.
C13_OpeningMove ==
    [][(currentState = STATE_OPENING_MOVE /\ ~borderDetected')
          => IF ElapsedInState < 500
             THEN /\ currentState' = STATE_OPENING_MOVE
                  /\ driveLog' = <<FullClockwise>>
             ELSE IF ElapsedInState < 500 + 800
             THEN /\ currentState' = STATE_OPENING_MOVE
                  /\ driveLog' = <<FullForward>>
             ELSE currentState' = STATE_SEARCH]_vars

\* The opening has ended exactly 1300 ms after it began, on a pass that saw
\* an enemy 25 cm ahead
C13_Witness ==
    /\ prevState = STATE_OPENING_MOVE
    /\ currentState = STATE_SEARCH
    /\ currentMillis = SETUP_COUNTDOWN_MS + 1300
    /\ stateStartTime = currentMillis
    /\ enemyDetected
    /\ distanceFront = 25
    /\ motors = FullForward

\* The pass runs the escape handler: BorderEscape is current, or the pass
\* sees a border and enters it
EscapePass == currentState = STATE_BORDER_ESCAPE \/ borderDetected'

\* Time on the maneuver timer of an escape pass (none on the pass of entry)
EscapeElapsed ==
    IF currentState = STATE_BORDER_ESCAPE THEN ElapsedInState ELSE 0

FullRotation == {<<FullClockwise>>, <<FullCounterClockwise>>}

DeadlockFires ==
    /\ currentMillis' - pushStartTime > 2000
    /\ distanceFront' - lastEnemyDistance < 5
    /\ lastEnemyDistance - distanceFront' < 5

C17_PushHoldsFrontTarget ==
    [][(PushPass /\ distanceFront' \in 2..49)
          => currentState' # STATE_SEARCH]_vars

\* C18: in every state, for each wheel at most one of the forward and the
\* backward channel is non-zero: after a positive speed the forward channel
\* carries it and the backward channel is zero, after a negative speed the
\* backward channel carries the magnitude and the forward channel is zero,
\* after zero both are zero.
C18_ChannelExclusivity ==
    /\ motors.lf = 0 \/ motors.lb = 0
    /\ motors.rf = 0 \/ motors.rb = 0
    /\ requestLeft > 0 => motors.lf = requestLeft /\ motors.lb = 0
    /\ requestLeft < 0 => motors.lf = 0 /\ motors.lb = -requestLeft
    /\ requestLeft = 0 => motors.lf = 0 /\ motors.lb = 0
    /\ requestRight > 0 => motors.rf = requestRight /\ motors.rb = 0
    /\ requestRight < 0 => motors.rf = 0 /\ motors.rb = -requestRight
    /\ requestRight = 0 => motors.rf = 0 /\ motors.rb = 0

\* The left wheel was sent backward and the right wheel forward
C18_Witness ==
    /\ requestLeft = -1
    /\ requestRight = 255
    /\ motors = Duty(0, 1, 255, 0)
    /\ driveLog = <<motors>>

C21_BorderSnapshot ==
    /\ borderFrontRight <=> irValues.fr > 512
    /\ borderFrontLeft <=> irValues.fl > 512
    /\ borderRight <=> irValues.r > 512
    /\ borderLeft <=> irValues.l > 512
    /\ borderBack <=> irValues.b > 512
    /\ borderDetected <=> (borderFrontRight \/ borderFrontLeft \/ borderRight
                             \/ borderLeft \/ borderBack)

\* A pass has swept the sensors with the front-left one reading exactly the
\* threshold and found no border
C21_Witness ==
    /\ currentMillis > SETUP_COUNTDOWN_MS
    /\ prevState = STATE_BORDER_ESCAPE
    /\ irValues.fl = 512
    /\ ~borderFrontLeft
    /\ ~borderDetected

\* The state name the diagnostics use for the state a pass is spent in
TagOf(st) ==
    CASE st = STATE_SEARCH -> "SEARCH"
      [] st = STATE_ATTACK -> "ATTACK"
      [] st = STATE_PUSH -> "PUSH"
      [] OTHER -> "NONE"

\* C22: a pass that changes the behaviour state writes at least one
\* diagnostic line, and a pass spent in Search, Attack or Push (the state
\* is current and no border flag is set) writes a line tagged with that
\* state's name.
C22_Diagnostics ==
    [][/\ currentState' # currentState => Len(serialLog') >= 1
       /\ (currentState \in {STATE_SEARCH, STATE_ATTACK, STATE_PUSH}
              /\ ~borderDetected')
            => \E i \in 1..Len(serialLog') :
                   serialLog'[i].tag = TagOf(currentState)]_vars

\* The opening has ended in Search and the pass has announced it
C22_Witness ==
    /\ prevState = STATE_OPENING_MOVE
    /\ currentState = STATE_SEARCH
    /\ serialLog = <<Event("OPENING", "Complete - Starting search")>>

\* C23: on a pass that sees a border flag while the state is not
\* BorderEscape, the handler of the interrupted state does not run: the
\* state becomes BorderEscape with the entry time set to the clock sample
\* of the pass, the push-start time and the last enemy distance are not
\* touched, no line of the interrupted state is written, the pass does not
\* wait, and its only drive command is the first-phase command of the
\* escape zone (reverse for front and side, forward for back).
C23_BorderPreemption ==
    [][(borderDetected' /\ currentState # STATE_BORDER_ESCAPE)
          => /\ currentState' = STATE_BORDER_ESCAPE
             /\ stateStartTime' = currentMillis'
             /\ pushStartTime' = pushStartTime
             /\ lastEnemyDistance' = lastEnemyDistance
             /\ clock' = currentMillis'
             /\ \A i \in 1..Len(serialLog') :
                    serialLog'[i].tag \in {"", "ESCAPE"}
             /\ driveLog' =
                  <<IF \/ borderFrontRight' \/ borderFrontLeft'
                       \/ borderRight' \/ borderLeft'
                    THEN FullReverse
                    ELSE FullForward>>]_vars

\* An attack on an enemy 25 cm ahead has been interrupted by the back
\* sensor: the pass drove forward and did not enter Push
C23_Witness ==
    /\ prevState = STATE_ATTACK
    /\ currentState = STATE_BORDER_ESCAPE
    /\ borderBack /\ ~borderLeft
    /\ distanceFront = 25
    /\ enemyDetected
    /\ stateStartTime = currentMillis
    /\ driveLog = <<FullForward>>

\* C29 as stated: on every pass that does not change the behaviour state
\* (deadlock recovery always changes it), the state-entry time, the
\* push-start time and the last enemy distance are unchanged.
C29_RobotStateFrame ==
    [][currentState' = currentState
          => /\ stateStartTime' = stateStartTime
             /\ pushStartTime' = pushStartTime
             /\ lastEnemyDistance' = lastEnemyDistance]_vars

\* The pass extends an escape: BorderEscape is current, a border flag is
\* set and the zone's maneuver time has elapsed
EscapeRetryPass ==
    /\ currentState = STATE_BORDER_ESCAPE
    /\ borderDetected'
    /\ ElapsedInState >= EscapeFullTime(borderFrontRight' \/ borderFrontLeft',
                                        borderRight' \/ borderLeft',
                                        borderBack')

\* C29 amended: on every pass that does not change the behaviour state the
\* push-start time is unchanged; the state-entry time is unchanged except
\* on a pass that extends an escape; the last enemy distance is unchanged
\* except on a Push pass, which sets it to the frontal distance of the
\* pass.
C29_FrameButRetryAndPush ==
    [][currentState' = currentState
          => /\ pushStartTime' = pushStartTime
             /\ stateStartTime' # stateStartTime => EscapeRetryPass
             /\ IF currentState = STATE_PUSH
                THEN lastEnemyDistance' = distanceFront'
                ELSE lastEnemyDistance' = lastEnemyDistance]_vars

\* The first pass spent in Push has recorded the frontal distance of 25 cm
\* and left the two timestamps alone
C29_Witness ==
    /\ prevState = STATE_PUSH
    /\ currentState = STATE_PUSH
    /\ ~borderDetected
    /\ distanceFront = 25
    /\ lastEnemyDistance = 25
    /\ pushStartTime = stateStartTime
    /\ currentMillis - pushStartTime = TickMs

\* C30: a pass that takes Attack to Push records the push-start time and
\* the last enemy distance: after it pushStartTime is the clock sample of
\* the pass and lastEnemyDistance is the frontal distance of the pass.
C30_PushEntryRecords ==
    [][(AttackPass /\ currentState' = STATE_PUSH)
          => /\ pushStartTime' = currentMillis'
             /\ lastEnemyDistance' = distanceFront']_vars

----------------------------------------------------------------------------
(* The train controller: loop() *)

\* millis() up to which a pass of the train's loop() may begin
TrainHorizon == 13000

\* Time from the end of one pass of the train's loop() to the top of the next
TrainSteps == {500, 1000}

\* delay(500) rounds connectWiFi() spends in a pass: none when WiFi is
\* connected at the top of the pass, one when it comes back at once, all
\* thirty when it stays away
Outages == {0, 1, CONNECT_ATTEMPTS}

\* digitalRead(IR_PIN)
Readings == {LOW, HIGH}

\* connectWiFi(): the time it blocks and WiFi.status() == WL_CONNECTED after it
ConnectWiFi(rounds) ==
    [wait |-> rounds * CONNECT_DELAY_MS, connected |-> rounds < CONNECT_ATTEMPTS]

\* Variant of NextWhiteCount: the count wraps one station later than the
\* route does
NextWhiteCount_WrapsLate(count) ==
    IF count + 1 > ROUTE_SIZE + 1 THEN 1 ELSE count + 1

\* whiteCount after one more station
NextWhiteCount(count) == IF count + 1 > ROUTE_SIZE THEN 1 ELSE count + 1

\* pauseDuration of the stop with that whiteCount
StopTime(count) == IF count = 1 THEN FIRST_STOP_TIME ELSE REGULAR_STOP_TIME

\* The test of the pause handler
PauseOver(cm) == cm - pauseStart >= pauseDuration

DepartureTelemetry(connected) == <<Telemetry("moving", NULL, connected)>>

ArrivalTelemetry_LoadingOnly(stationId, connected) ==
    <<Telemetry("loading", stationId, connected)>>

\* The two sendTelemetry() calls of the station block
ArrivalTelemetry(stationId, connected) ==
    <<Telemetry("stopped", stationId, connected),
      Telemetry("loading", stationId, connected)>>

\* Variant of StationDetected: a white debounced state registers a station
\* whatever the state before it was
StationDetected_OnWhite(ignore, stable, last) == ~ignore /\ stable = HIGH

\* The test of the station block: a black-to-white change of the debounced
\* state while white is not ignored
StationDetected(ignore, stable, last) ==
    ~ignore /\ stable = HIGH /\ last = LOW

\* One pass of loop().  step is the time since the end of the previous pass,
\* rounds the delay(500) rounds of connectWiFi(), reading the IR pin.  cm is
\* the only millis() sample of the pass, now is millis() once connectWiFi()
\* has returned, which is when the pins are written.
TrainLoop(step, rounds, reading) ==
    LET cm == trainClock + step
        wifi == ConnectWiFi(rounds)
        now == cm + wifi.wait
        debounce == IF reading # lastReading THEN cm ELSE lastDebounceTime
        stable == IF cm - debounce > DEBOUNCE_DELAY THEN reading ELSE stableState
        depart == isPaused /\ PauseOver(cm)
        ignore == IF depart THEN FALSE ELSE ignoreWhite
        arrive == StationDetected(ignore, stable, lastStableState)
        count == NextWhiteCount(whiteCount)
        stationId == ROUTE[(currentStationIndex % ROUTE_SIZE) + 1]
        sent == (IF depart THEN DepartureTelemetry(wifi.connected) ELSE <<>>) \o
                (IF arrive THEN ArrivalTelemetry(stationId, wifi.connected) ELSE <<>>)
    IN  /\ cm <= TrainHorizon
        /\ lastReading' = reading
        /\ lastDebounceTime' = debounce
        /\ stableState' = stable
        /\ lastStableState' = stable
        /\ isPaused' = IF arrive THEN TRUE ELSE isPaused /\ ~depart
        /\ ignoreWhite' = IF arrive THEN TRUE ELSE ignore
        /\ motorPin' = IF arrive THEN LOW
                       ELSE IF ~isPaused THEN motorPin
                       ELSE IF depart THEN HIGH ELSE LOW
        /\ whiteCount' = IF arrive THEN count ELSE whiteCount
        /\ pauseDuration' = IF arrive THEN StopTime(count) ELSE pauseDuration
        /\ pauseStart' = IF arrive THEN cm ELSE pauseStart
        /\ currentStationIndex' = IF arrive
                                  THEN (currentStationIndex + 1) % ROUTE_SIZE
                                  ELSE currentStationIndex
        /\ telemetryLog' = sent
        /\ lastTelemetry' = IF sent = <<>> THEN lastTelemetry ELSE sent[Len(sent)]
        /\ arrivedAt' = IF arrive THEN now ELSE arrivedAt
        /\ departedAt' = IF depart THEN now ELSE departedAt
        /\ arrivals' = IF arrive THEN arrivals + 1 ELSE arrivals
        /\ trainClock' = now + (IF arrive THEN LOADING_DELAY_MS ELSE 0)
        /\ UNCHANGED <<robotVars, stationVars>>

\* A pass that begins with the train between stations
TrainRun ==
    \E step \in TrainSteps, rounds \in Outages, reading \in Readings :
        /\ ~isPaused
        /\ TrainLoop(step, rounds, reading)

\* A pass that begins with the train held at a station
TrainDwell ==
    \E step \in TrainSteps, rounds \in Outages, reading \in Readings :
        /\ isPaused
        /\ TrainLoop(step, rounds, reading)

TrainNext ==
    \/ TrainRun
    \/ TrainDwell

\* The train on its own, the robot at rest on a ring whose border is not seen
TrainInit == Init /\ irValues \in IRClear

TrainSpec == TrainInit /\ [][TrainNext]_vars

----------------------------------------------------------------------------
(* Train controller properties *)

\* The pass now ending resumed the motor after a stop
TrainDeparted ==
    isPaused /\ \E i \in 1..Len(telemetryLog') : telemetryLog'[i].status = "moving"

\* C24: once an arrival is registered the motor pin stays LOW, and the
\* departure comes no sooner than the stop duration (5000 ms for the first
\* stop of a route cycle, 3000 ms for the others) after the moment the
\* arrival stopped the motor, however the clock advances inside a pass
C24_StopDuration ==
    [][/\ isPaused' => motorPin' = LOW
       /\ TrainDeparted => departedAt' - arrivedAt >= StopTime(whiteCount)]_vars

\* Telemetry call b may follow call a when the station about to be visited
\* is the one with index idx of the route
TelemetryFollows(a, b, idx) ==
    /\ a.status = "moving" =>
         b.status = "stopped" /\ b.station = ROUTE[idx + 1]
    /\ a.status = "stopped" => b.status = "loading" /\ b.station = a.station
    /\ a.status = "loading" => b.status = "moving" /\ b.station = NULL

\* C28: the sendTelemetry() calls are "moving" at startup, then for each
\* visit "stopped" and "loading" with the id of the station visited, then
\* "moving" with a null id; "loading" always follows the "stopped" of the
\* same station directly, with no "moving" between them
C28_TelemetryOrder ==
    /\ lastTelemetry = Telemetry("moving", NULL, TRUE)
    /\ [][LET seq == <<lastTelemetry>> \o telemetryLog'
          IN  \A i \in 1..(Len(seq) - 1) :
                TelemetryFollows(seq[i], seq[i + 1], currentStationIndex)]_vars

\* A pass both left a station and registered the next one: it made the calls
\* "moving", "stopped", "loading", the latter two for the second station
C28_Witness ==
    /\ Len(telemetryLog) = 3
    /\ telemetryLog[1].status = "moving"
    /\ telemetryLog[3] = Telemetry("loading", "station-b", TRUE)

----------------------------------------------------------------------------
(* The station card reader: loop() *)

\* millis() up to which a pass of the reader's loop() may begin
StationHorizon == 6000

\* Time from the end of one pass of the reader's loop() to the top of the next
StationSteps == {50, 1000}

\* The same for the reader left alone through a WiFi outage
OutageHorizon == 32000

OutageSteps == {1000, 5000}

\* rfid.uid of the cards presented
CardBytes == {<<4, 161>>, <<4, 10>>}

\* No card in the field, or a card whose serial could not be read
NoCard == <<>>

HexDigits == <<"0", "1", "2", "3", "4", "5", "6", "7",
               "8", "9", "A", "B", "C", "D", "E", "F">>

\* String(b, HEX) in upper case
HexString(b) ==
    IF b < 16 THEN HexDigits[b + 1]
    ELSE HexDigits[(b \div 16) + 1] \o HexDigits[(b % 16) + 1]

RECURSIVE ExtractCardUID(_)
\* extractCardUID(): each byte as two upper-case hex digits
ExtractCardUID(bytes) ==
    IF bytes = <<>> THEN ""
    ELSE (IF Head(bytes) < 16 THEN "0" ELSE "") \o HexString(Head(bytes))
         \o ExtractCardUID(Tail(bytes))

IsDuplicateRead_AnyCard(cardUID, currentTime) ==
    currentTime - lastCardReadTime < CARD_COOLDOWN

\* isDuplicateRead()
IsDuplicateRead(cardUID, currentTime) ==
    /\ cardUID = lastCardUID
    /\ currentTime - lastCardReadTime < CARD_COOLDOWN

\* What one http.POST() comes to: a parsed answer that approves or denies,
\* an answer that does not parse, or no answer (httpCode <= 0)
Outcomes == {"approved", "denied", "garbled", "failed"}

\* result.success of performHTTPValidation()
Parsed(outcome) == outcome \in {"approved", "denied"}

\* The answers the backend would give to each attempt of one validation
Responses == [1..MAX_HTTP_RETRIES -> Outcomes]

NoResponses == [i \in 1..MAX_HTTP_RETRIES |-> "failed"]

RECURSIVE Attempts(_, _)
\* The http.POST() calls of the retry loop from the given attempt on
Attempts(responses, attempt) ==
    IF attempt > MAX_HTTP_RETRIES THEN <<>>
    ELSE IF Parsed(responses[attempt]) THEN <<responses[attempt]>>
    ELSE <<responses[attempt]>> \o Attempts(responses, attempt + 1)

RECURSIVE RetryDelay(_)
\* The delay(1000 * attempt) calls of a validation that made n attempts
RetryDelay(n) == IF n <= 1 THEN 0 ELSE RETRY_DELAY_MS * n + RetryDelay(n - 1)

ValidateCardWithBackend_ExhaustedUncounted(connected, responses) ==
    LET log == Attempts(responses, 1)
        last == IF log = <<>> THEN "failed" ELSE log[Len(log)]
    IN  IF ~connected
        THEN [called |-> "offline", log |-> <<>>, success |-> FALSE,
              approved |-> 0, failed |-> 0, wait |-> 0]
        ELSE [called |-> "online", log |-> log, success |-> Parsed(last),
              approved |-> IF last = "approved" THEN 1 ELSE 0,
              failed |-> IF last = "denied" THEN 1 ELSE 0,
              wait |-> RetryDelay(Len(log))]

\* validateCardWithBackend(): the attempts made, result.success, what is
\* added to successfulValidations and to failedValidations, the time spent
\* in delay()
ValidateCardWithBackend(connected, responses) ==
    LET log == Attempts(responses, 1)
        last == IF log = <<>> THEN "failed" ELSE log[Len(log)]
    IN  IF ~connected
        THEN [called |-> "offline", log |-> <<>>, success |-> FALSE,
              approved |-> 0, failed |-> 0, wait |-> 0]
        ELSE [called |-> "online", log |-> log, success |-> Parsed(last),
              approved |-> IF last = "approved" THEN 1 ELSE 0,
              failed |-> IF last = "approved" THEN 0 ELSE 1,
              wait |-> RetryDelay(Len(log))]

\* The delays of displayValidationResult()
DisplayWait(success) ==
    IF success THEN LED_DISPLAY_TIME ELSE BLINK_ROUNDS * 2 * BLINK_MS

\* The check of ensureWiFiConnected() is due at time t
CheckDue(t) == t - lastCheckTime >= WIFI_CHECK_INTERVAL

\* ensureWiFiConnected() called at time t with WiFi connected or not; recovers
\* tells whether a reconnection it attempts succeeds (at its first poll)
EnsureWiFiConnected(t, connected, recovers) ==
    IF ~CheckDue(t)
    THEN [attempt |-> FALSE, connected |-> connected, wait |-> 0,
          lastCheckTime |-> lastCheckTime,
          reconnectAttempts |-> reconnectAttempts]
    ELSE IF connected
    THEN [attempt |-> FALSE, connected |-> TRUE, wait |-> 0,
          lastCheckTime |-> t, reconnectAttempts |-> 0]
    ELSE [attempt |-> TRUE, connected |-> recovers,
          wait |-> RECONNECT_SETTLE_MS +
                   (IF recovers THEN RECONNECT_POLL_MS ELSE RECONNECT_TIMEOUT_MS),
          lastCheckTime |-> t,
          reconnectAttempts |-> IF recovers THEN 0 ELSE reconnectAttempts + 1]

\* One pass of loop().  step is the time since the end of the previous pass,
\* connected the state of WiFi at its top, bytes the uid of the card read
\* (NoCard when the pass returns before reading one), responses the answers
\* of the backend
StationLoop(step, connected, recovers, bytes, responses) ==
    LET t == stationClock + step
        wifi == EnsureWiFiConnected(t, connected, recovers)
        now == t + wifi.wait
        cardUID == ExtractCardUID(bytes)
        accepted == bytes # NoCard /\ ~IsDuplicateRead(cardUID, now)
        result == ValidateCardWithBackend(wifi.connected, responses)
    IN  /\ lastCheckTime' = wifi.lastCheckTime
        /\ reconnectAttempts' = wifi.reconnectAttempts
        /\ lastAttemptTime' = IF wifi.attempt THEN t ELSE lastAttemptTime
        /\ attemptWaits' = IF ~wifi.attempt
                           THEN (IF CheckDue(t) THEN <<>> ELSE attemptWaits)
                           ELSE IF reconnectAttempts = 0 THEN <<>>
                           ELSE Append(attemptWaits, t - lastAttemptTime)
        /\ cardSeen' = cardUID
        /\ readTime' = IF bytes = NoCard THEN readTime ELSE now
        /\ lastCardUID' = IF accepted THEN cardUID ELSE lastCardUID
        /\ lastCardReadTime' = IF accepted THEN now ELSE lastCardReadTime
        /\ totalCardsScanned' = IF accepted THEN totalCardsScanned + 1
                                ELSE totalCardsScanned
        /\ validation' = IF accepted THEN result.called ELSE "none"
        /\ httpLog' = IF accepted THEN result.log ELSE <<>>
        /\ successfulValidations' = IF accepted
                                    THEN successfulValidations + result.approved
                                    ELSE successfulValidations
        /\ failedValidations' = IF accepted
                                THEN failedValidations + result.failed
                                ELSE failedValidations
        /\ stationClock' = IF accepted
                           THEN now + result.wait + DisplayWait(result.success)
                                + NEXT_CARD_DELAY_MS
                           ELSE now
        /\ UNCHANGED <<robotVars, trainVars>>

\* Whether a reconnection attempted by a pass succeeds: drawn when the pass
\* attempts one
Recoveries(step, connected) ==
    IF CheckDue(stationClock + step) /\ ~connected THEN BOOLEAN ELSE {FALSE}

\* A pass that finds no card
StationIdle ==
    \E step \in StationSteps, connected \in BOOLEAN :
      \E recovers \in Recoveries(step, connected) :
        /\ stationClock + step <= StationHorizon
        /\ StationLoop(step, connected, recovers, NoCard, NoResponses)

\* A pass that reads a card
StationCard ==
    \E step \in StationSteps, connected \in BOOLEAN :
      \E recovers \in Recoveries(step, connected) :
        \E bytes \in CardBytes, responses \in Responses :
          /\ stationClock + step <= StationHorizon
          /\ StationLoop(step, connected, recovers, bytes, responses)

StationNext ==
    \/ StationIdle
    \/ StationCard

\* The reader on its own, the robot at rest on a ring whose border is not seen
StationInit == Init /\ irValues \in IRClear

StationSpec == StationInit /\ [][StationNext]_vars

\* A pass of the unattended reader that finds WiFi connected
OutageLinkUp ==
    \E step \in OutageSteps :
        /\ stationClock + step <= OutageHorizon
        /\ StationLoop(step, TRUE, FALSE, NoCard, NoResponses)

\* A pass of the unattended reader that finds WiFi disconnected
OutageLinkDown ==
    \E step \in OutageSteps :
      \E recovers \in Recoveries(step, FALSE) :
        /\ stationClock + step <= OutageHorizon
        /\ StationLoop(step, FALSE, recovers, NoCard, NoResponses)

OutageNext ==
    \/ OutageLinkUp
    \/ OutageLinkDown

OutageSpec == StationInit /\ [][OutageNext]_vars

----------------------------------------------------------------------------
(* Station card reader properties *)

\* The pass now ending read a card that isDuplicateRead() calls a duplicate
DuplicatePass ==
    /\ cardSeen' # ""
    /\ cardSeen' = lastCardUID
    /\ readTime' - lastCardReadTime < CARD_COOLDOWN

\* C25: a card whose UID is the last accepted one, read less than
\* CARD_COOLDOWN after that acceptance, is ignored: no validation is made,
\* and lastCardUID, lastCardReadTime and the three counters keep their
\* values; any other card read is accepted
C25_DuplicateRead ==
    [][/\ DuplicatePass =>
            /\ validation' = "none"
            /\ httpLog' = <<>>
            /\ UNCHANGED <<lastCardUID, lastCardReadTime, totalCardsScanned,
                           successfulValidations, failedValidations>>
       /\ cardSeen' # "" /\ ~DuplicatePass =>
            /\ validation' # "none"
            /\ lastCardUID' = cardSeen'
            /\ lastCardReadTime' = readTime'
            /\ totalCardsScanned' = totalCardsScanned + 1]_vars

\* A second read of the accepted card inside the cooldown was ignored
C25_Witness ==
    /\ cardSeen = "04A1"
    /\ lastCardUID = "04A1"
    /\ validation = "none"
    /\ readTime > lastCardReadTime
    /\ readTime - lastCardReadTime < CARD_COOLDOWN

\* C26: validateCardWithBackend makes no HTTP attempt without WiFi; with
\* WiFi it makes at most MAX_HTTP_RETRIES attempts, the last of them the
\* first one whose answer was received and parsed, and adds one to exactly
\* one of successfulValidations and failedValidations, to the former only
\* when the backend approved
C26_ValidationRetry ==
    [][/\ validation' = "offline" => httpLog' = <<>>
       /\ validation' = "online" =>
            /\ Len(httpLog') \in 1..MAX_HTTP_RETRIES
            /\ \A i \in 1..(Len(httpLog') - 1) : ~Parsed(httpLog'[i])
            /\ Len(httpLog') < MAX_HTTP_RETRIES => Parsed(httpLog'[Len(httpLog')])
            /\ \/ /\ successfulValidations' = successfulValidations + 1
                  /\ failedValidations' = failedValidations
                  /\ httpLog'[Len(httpLog')] = "approved"
               \/ /\ successfulValidations' = successfulValidations
                  /\ failedValidations' = failedValidations + 1
                  /\ httpLog'[Len(httpLog')] # "approved"]_vars

\* A validation whose two attempts both went unanswered was counted as failed
C26_Witness ==
    /\ validation = "online"
    /\ httpLog = <<"failed", "failed">>
    /\ failedValidations = 1
    /\ successfulValidations = 0

\* C27: while WiFi stays disconnected, each wait between two successive
\* reconnection attempts is longer than the wait before it
C27_Backoff ==
    \A i \in 2..Len(attemptWaits) : attemptWaits[i] > attemptWaits[i - 1]

----------------------------------------------------------------------------
(* The robot on a ring whose border it sees, with a lateral target *)

\* The surface, or the white line under the front-left sensor
RingIR == IRClear \cup {IRVec(300, 700, 300, 300, 300)}

\* Front echoes: none, or a target 25 cm ahead
RingFront == {0, 1458}

RingOpeningMove ==
    \E step \in Steps, ir \in RingIR, echoF \in RingFront, echoL \in EchoSide :
        /\ Dispatched(ir) = STATE_OPENING_MOVE
        /\ Loop(step, ir, echoF, echoL, 0, 0, 0)

RingSearch ==
    \E step \in Steps, ir \in RingIR, echoF \in RingFront, echoL \in EchoSide :
        /\ Dispatched(ir) = STATE_SEARCH
        /\ Loop(step, ir, echoF, echoL, 0, 0, 0)

RingAttack ==
    \E step \in Steps, ir \in RingIR, echoF \in RingFront, echoL \in EchoSide :
        /\ Dispatched(ir) = STATE_ATTACK
        /\ Loop(step, ir, echoF, echoL, 0, 0, 0)

RingPush ==
    \E step \in Steps, ir \in RingIR, echoF \in RingFront, echoL \in EchoSide :
        /\ Dispatched(ir) = STATE_PUSH
        /\ Loop(step, ir, echoF, echoL, 0, 0, 0)

RingBorderEscape ==
    \E step \in Steps, ir \in RingIR, echoF \in RingFront, echoL \in EchoSide :
        /\ Dispatched(ir) = STATE_BORDER_ESCAPE
        /\ Loop(step, ir, echoF, echoL, 0, ir.fr, ir.fl)

RingNext ==
    \/ RingOpeningMove
    \/ RingSearch
    \/ RingAttack
    \/ RingPush
    \/ RingBorderEscape

RingSpec == Init /\ [][RingNext]_vars

\* The pass rotates toward a lateral target
LateralSearchPass == SearchPass /\ enemyDetected' /\ enemyDirection' # 0

\* Time the pass spends in delay() after its one reading of the border
\* sensors
Blocked == clock' - currentMillis'

\* C31: the border sensors are read once, at the top of a pass.  A Push
\* pass that recovers from a deadlock then blocks for 600 ms and a Search
\* pass that rotates toward a lateral target for 200 ms, and both end in
\* Attack whatever the border does meanwhile; every other pass returns
\* without blocking.  The next reading comes only with the next pass, after
\* the blocked time, and BorderEscape is entered only by a pass whose own
\* reading has a flag set.
C31_BlockingDefersBorder ==
    [][/\ Blocked = (IF PushPass /\ DeadlockFires THEN 300 + 300
                     ELSE IF LateralSearchPass THEN 200
                     ELSE 0)
       /\ Blocked > 0 => currentState' = STATE_ATTACK
       /\ currentMillis' > clock
       /\ (currentState' = STATE_BORDER_ESCAPE /\ currentState # STATE_BORDER_ESCAPE)
            => borderDetected' /\ stateStartTime' = currentMillis']_vars

\* A deadlock recovery has just ended: the pass read the border sensors
\* 600 ms ago and left the state Attack
C31_Witness ==
    /\ currentState = STATE_ATTACK
    /\ prevState = STATE_PUSH
    /\ stateStartTime = currentMillis
    /\ clock - currentMillis = 300 + 300

----------------------------------------------------------------------------
(* Escape handler: frame and retry *)

ZoneOf(fr, fl, r, l, b) ==
    IF fr \/ fl THEN "front"
    ELSE IF r \/ l THEN "side"
    ELSE IF b THEN "back"
    ELSE "none"

\* The zone selected by the flags the last pass read, and by those this
\* pass reads
ZoneBefore ==
    ZoneOf(borderFrontRight, borderFrontLeft, borderRight, borderLeft, borderBack)

ZoneNow ==
    ZoneOf(borderFrontRight', borderFrontLeft', borderRight', borderLeft',
           borderBack')

\* First-phase duration, two-phase duration and first-phase command of a zone
ZoneFirstTime(zone) == IF zone = "side" THEN 200 ELSE 300

ZoneFullTime(zone) ==
    IF zone = "front" THEN 300 + 400 ELSE IF zone = "side" THEN 200 + 300 ELSE 300 + 300

ZoneFirstCommand(zone) == IF zone = "back" THEN FullForward ELSE FullReverse

\* The last pass extended an escape: it ran the escape handler on a set
\* flag and issued no drive command
RetryJustMade ==
    /\ currentState = STATE_BORDER_ESCAPE
    /\ prevState = STATE_BORDER_ESCAPE
    /\ borderDetected
    /\ driveLog = <<>>

ZoneTurnNow ==
    IF ZoneNow = "front"
    THEN IF borderFrontRight' /\ ~borderFrontLeft' THEN FullCounterClockwise
         ELSE IF borderFrontLeft' /\ ~borderFrontRight' THEN FullClockwise
         ELSE IF frSample' > flSample' THEN FullCounterClockwise
         ELSE FullClockwise
    ELSE IF ZoneNow = "side"
    THEN IF borderLeft' THEN FullClockwise ELSE FullCounterClockwise
    ELSE FullClockwise

\* C34: the zone and the turn direction of an escape pass come from the
\* flags of that pass, and the maneuver timer is not restarted when they
\* select another zone than the pass before: the pass runs the phase of the
\* new zone that the time since entry selects (its first command below its
\* first-phase duration, its rotation below its two-phase duration, an
\* extension after that).
C34_ZoneNotLatched ==
    [][(/\ currentState = STATE_BORDER_ESCAPE
        /\ borderDetected
        /\ ZoneNow # "none"
        /\ ZoneNow # ZoneBefore)
       => /\ currentState' = STATE_BORDER_ESCAPE
          /\ IF ElapsedInState < ZoneFirstTime(ZoneNow)
             THEN /\ driveLog' = <<ZoneFirstCommand(ZoneNow)>>
                  /\ stateStartTime' = stateStartTime
             ELSE IF ElapsedInState < ZoneFullTime(ZoneNow)
             THEN /\ driveLog' = <<ZoneTurnNow>>
                  /\ stateStartTime' = stateStartTime
             ELSE /\ driveLog' = <<>>
                  /\ stateStartTime' = currentMillis' - ZoneFirstTime(ZoneNow)]_vars

\* The side maneuver was extended (timer 200 ms back) and the next pass read
\* a front flag: it ran the rotate phase of the front maneuver, 450 ms on
\* the shared timer
C34_Witness ==
    /\ currentState = STATE_BORDER_ESCAPE
    /\ prevState = STATE_BORDER_ESCAPE
    /\ borderFrontRight \/ borderFrontLeft
    /\ currentMillis - stateStartTime = BORDER_REV_SIDE + TickMs
    /\ driveLog \in FullRotation

----------------------------------------------------------------------------
(* Approach from beyond the lost threshold *)

\* The frontal distance of the pass lies beyond ENEMY_LOST, within ENEMY_FAR
BeyondLost == distanceFront' > 50 /\ distanceFront' <= 150

\* C35: with no border flag and a frontal distance d, 50 < d <= 150: a
\* Search pass makes the state Attack; an Attack pass keeps Attack with the
\* arc command until more than 1000 ms have passed since Attack was entered
\* and then makes the state Search without a drive command; and Push is
\* entered only from Attack at a distance of at most 30.  So while d is
\* held the state alternates between Search and Attack and never is Push.
C35_ApproachAlternates ==
    [][/\ (SearchPass /\ BeyondLost) => currentState' = STATE_ATTACK
       /\ (AttackPass /\ BeyondLost) =>
            IF ElapsedInState > 1000
            THEN currentState' = STATE_SEARCH /\ driveLog' = <<>>
            ELSE /\ currentState' = STATE_ATTACK
                 /\ driveLog' = <<IF distanceFront' > 80 THEN ArcFar ELSE ArcMedium>>
       /\ (currentState' = STATE_PUSH /\ currentState # STATE_PUSH) =>
            currentState = STATE_ATTACK /\ distanceFront' <= 30]_vars

\* Attack, entered on a target 100 cm ahead, has been left for Search more
\* than 1000 ms later with the target still 100 cm ahead, no push having
\* taken place
C35_Witness ==
    /\ currentState = STATE_SEARCH
    /\ prevState = STATE_ATTACK
    /\ distanceFront = 100
    /\ stateStartTime = currentMillis
    /\ pushStartTime = 0
    /\ motors = ArcFar

----------------------------------------------------------------------------
(* Transition passes *)

\* The pass takes one of the transitions that a handler makes by returning
\* at once
QuietTransition ==
    \/ currentState = STATE_OPENING_MOVE /\ currentState' = STATE_SEARCH
    \/ currentState = STATE_SEARCH /\ currentState' = STATE_ATTACK
         /\ enemyDirection' = 0
    \/ currentState = STATE_ATTACK /\ currentState' = STATE_SEARCH
    \/ currentState = STATE_ATTACK /\ currentState' = STATE_PUSH
    \/ currentState = STATE_PUSH /\ currentState' = STATE_SEARCH
    \/ currentState = STATE_BORDER_ESCAPE /\ currentState' = STATE_SEARCH

\* C36: a pass that takes OpeningMove -> Search, Search -> Attack on a
\* frontal target, Attack -> Search, Attack -> Push, Push -> Search or
\* BorderEscape -> Search calls no motion function and does not block: the
\* motor outputs stay as the previous command left them.
C36_QuietTransitions ==
    [][QuietTransition =>
          /\ driveLog' = <<>>
          /\ motors' = motors
          /\ clock' = currentMillis']_vars

\* Push has just been entered and the motors still run the far-band arc of
\* the Attack pass before
C36_Witness ==
    /\ currentState = STATE_PUSH
    /\ prevState = STATE_ATTACK
    /\ stateStartTime = currentMillis
    /\ driveLog = <<>>
    /\ motors = ArcFar

----------------------------------------------------------------------------
(* State-entry timestamp *)

\* Time already counted against the state when the pass that entered it ends
CountedAtEntry == clock' - stateStartTime'

\* C37: on every state change stateStartTime is the time sampled at the top
\* of that pass, also when the handler blocked before it returned: Attack
\* entered by the deadlock recovery starts with 600 ms already counted
\* against its 1000 ms grace, and Attack entered after the lateral rotate
\* with 200 ms.
C37_EntryStampIsPassStart ==
    [][/\ currentState' # currentState =>
             /\ stateStartTime' = currentMillis'
             /\ currentMillis' > clock
       /\ (PushPass /\ currentState' = STATE_ATTACK) =>
             /\ CountedAtEntry = 600
             /\ ATTACK_LOST_GRACE - CountedAtEntry = 400
       /\ (LateralSearchPass /\ currentState' = STATE_ATTACK) =>
             CountedAtEntry = 200
       /\ (currentState' # currentState /\ ~(PushPass /\ DeadlockFires)
             /\ ~LateralSearchPass) =>
             CountedAtEntry = 0]_vars

\* Attack has just been entered by the lateral rotate, whose 200 ms hold has
\* passed since the entry timestamp
C37_Witness ==
    /\ currentState = STATE_ATTACK
    /\ prevState = STATE_SEARCH
    /\ enemyDirection # 0
    /\ stateStartTime = currentMillis
    /\ clock - stateStartTime = 200

----------------------------------------------------------------------------
(* The robot pushing an opponent near the ENEMY_LOST distance *)

\* pulseIn() results of the front sensor: timeout, and echo times of 25, 30,
\* 48 and 52 cm (the last two lie on either side of ENEMY_LOST and less than
\* DEADLOCK_TOLERANCE apart)
NearLostFront == {0, 1458, 1750, 2799, 3033}

NearLostOpeningMove ==
    \E step \in Steps, ir \in IRClear, echoF \in NearLostFront :
        /\ Dispatched(ir) = STATE_OPENING_MOVE
        /\ Loop(step, ir, echoF, 0, 0, 0, 0)

NearLostSearch ==
    \E step \in Steps, ir \in IRClear, echoF \in NearLostFront :
        /\ Dispatched(ir) = STATE_SEARCH
        /\ Loop(step, ir, echoF, 0, 0, 0, 0)

NearLostAttack ==
    \E step \in Steps, ir \in IRClear, echoF \in NearLostFront :
        /\ Dispatched(ir) = STATE_ATTACK
        /\ Loop(step, ir, echoF, 0, 0, 0, 0)

NearLostPush ==
    \E step \in Steps, ir \in IRClear, echoF \in NearLostFront :
        /\ Dispatched(ir) = STATE_PUSH
        /\ Loop(step, ir, echoF, 0, 0, 0, 0)

NearLostNext ==
    \/ NearLostOpeningMove
    \/ NearLostSearch
    \/ NearLostAttack
    \/ NearLostPush

NearLostSpec == Init /\ [][NearLostNext]_vars

\* The push has lasted longer than DEADLOCK_TIME at the top of the pass
PushWindowOver == currentMillis' - pushStartTime > DEADLOCK_TIME

\* The frontal distance of this pass is within the tolerance of the one the
\* pass before measured
NearPreviousPass == Abs(distanceFront' - distanceFront) < DEADLOCK_TOLERANCE

----------------------------------------------------------------------------
(* The train controller before the route and the telemetry were added *)

\* whiteCount wraps to 1 after this many stops
ORIGINAL_CYCLE == 4

OriginalNextWhiteCount(count) == IF count + 1 > ORIGINAL_CYCLE THEN 1 ELSE count + 1

\* One pass of the original loop(): no WiFi, no telemetry and no route, and a
\* pass that finds the pause not yet over returns before it records
\* lastStableState
OriginalLoop(step, reading) ==
    LET cm == trainClock + step
        debounce == IF reading # lastReading THEN cm ELSE lastDebounceTime
        stable == IF cm - debounce > DEBOUNCE_DELAY THEN reading ELSE stableState
        depart == isPaused /\ PauseOver(cm)
        held == isPaused /\ ~PauseOver(cm)
        ignore == IF depart THEN FALSE ELSE ignoreWhite
        arrive == ~held /\ StationDetected(ignore, stable, lastStableState)
        count == OriginalNextWhiteCount(whiteCount)
    IN  /\ cm <= TrainHorizon
        /\ lastReading' = reading
        /\ lastDebounceTime' = debounce
        /\ stableState' = stable
        /\ lastStableState' = IF held THEN lastStableState ELSE stable
        /\ isPaused' = IF arrive THEN TRUE ELSE held
        /\ ignoreWhite' = IF arrive THEN TRUE ELSE ignore
        /\ motorPin' = IF held \/ arrive THEN LOW
                       ELSE IF depart \/ stable = LOW THEN HIGH
                       ELSE motorPin
        /\ whiteCount' = IF arrive THEN count ELSE whiteCount
        /\ pauseDuration' = IF arrive THEN StopTime(count) ELSE pauseDuration
        /\ pauseStart' = IF arrive THEN cm ELSE pauseStart
        /\ arrivedAt' = IF arrive THEN cm ELSE arrivedAt
        /\ departedAt' = IF depart THEN cm ELSE departedAt
        /\ arrivals' = IF arrive THEN arrivals + 1 ELSE arrivals
        /\ trainClock' = cm
        /\ UNCHANGED <<currentStationIndex, telemetryLog, lastTelemetry>>
        /\ UNCHANGED <<robotVars, stationVars>>

OriginalRun ==
    \E step \in TrainSteps, reading \in Readings :
        /\ ~isPaused
        /\ OriginalLoop(step, reading)

OriginalDwell ==
    \E step \in TrainSteps, reading \in Readings :
        /\ isPaused
        /\ OriginalLoop(step, reading)

OriginalNext ==
    \/ OriginalRun
    \/ OriginalDwell

OriginalTrainSpec == TrainInit /\ [][OriginalNext]_vars

----------------------------------------------------------------------------
(* One marker, one stop *)

\* The pass now ending registered a station
ArrivalRegistered == arrivedAt' # arrivedAt

\* The pass now ending found the pause over
PauseEnded == departedAt' # departedAt

\* C39: a station is registered only in a pass in which the debounced IR
\* state goes from LOW to HIGH while white is not ignored; a pass that finds
\* the train paused and the pause not over registers none; and a pass that
\* begins with the debounced state HIGH registers none, so a marker that
\* stays white through the stop and after the departure is counted once.
C39_OneMarkerOneStop ==
    [][/\ ArrivalRegistered =>
             /\ stableState = LOW
             /\ lastStableState = LOW
             /\ stableState' = HIGH
             /\ ~ignoreWhite \/ PauseEnded
             /\ whiteCount' # whiteCount
             /\ isPaused' /\ ignoreWhite' /\ motorPin' = LOW
       /\ ~ArrivalRegistered => whiteCount' = whiteCount
       /\ (isPaused /\ ~PauseEnded) =>
             /\ ~ArrivalRegistered
             /\ isPaused' /\ ignoreWhite' /\ motorPin' = LOW
       /\ stableState = HIGH => ~ArrivalRegistered]_vars

\* The train has left its first stop, the marker is still under the sensor
\* and white is no longer ignored, and no second station has been counted
C39_Witness ==
    /\ ~isPaused
    /\ ~ignoreWhite
    /\ motorPin = HIGH
    /\ stableState = HIGH
    /\ lastStableState = HIGH
    /\ whiteCount = 1
    /\ departedAt > arrivedAt
    /\ arrivedAt > 0

----------------------------------------------------------------------------
(* Route bookkeeping *)

\* whiteCount and currentStationIndex after k registered stations
RouteInStep(k, count, index) ==
    /\ index = k % ROUTE_SIZE
    /\ count = IF k = 0 THEN 0 ELSE ((k - 1) % ROUTE_SIZE) + 1

\* Station of the k-th arrival (ROUTE is indexed from 1 here, from 0 in the
\* code)
StationOfArrival(k) == ROUTE[((k - 1) % ROUTE_SIZE) + 1]

\* Every telemetry call of the pass now ending that names a station names
\* this one, and there is such a call
Reported(stationId) ==
    /\ \E i \in 1..Len(telemetryLog') : telemetryLog'[i].station = stationId
    /\ \A i \in 1..Len(telemetryLog') :
          telemetryLog'[i].station \in {NULL, stationId}

\* C40: after the k-th registered arrival the station reported is
\* ROUTE[(k-1) mod ROUTE_SIZE], currentStationIndex is k mod ROUTE_SIZE and
\* whiteCount is ((k-1) mod ROUTE_SIZE) + 1; whiteCount mod ROUTE_SIZE equals
\* currentStationIndex in every state, both stay in their ranges, and the
\* stop lasts FIRST_STOP_TIME exactly when the arrival is at ROUTE[0].
C40_RouteLockstep ==
    [][/\ RouteInStep(arrivals, whiteCount, currentStationIndex)
       /\ RouteInStep(arrivals', whiteCount', currentStationIndex')
       /\ whiteCount % ROUTE_SIZE = currentStationIndex
       /\ whiteCount' % ROUTE_SIZE = currentStationIndex'
       /\ whiteCount' \in 0..ROUTE_SIZE
       /\ currentStationIndex' \in 0..(ROUTE_SIZE - 1)
       /\ ArrivalRegistered =>
             /\ arrivals' = arrivals + 1
             /\ Reported(StationOfArrival(arrivals'))
             /\ pauseDuration' \in {FIRST_STOP_TIME, REGULAR_STOP_TIME}
             /\ pauseDuration' = FIRST_STOP_TIME
                   <=> StationOfArrival(arrivals') = ROUTE[1]
       /\ ~ArrivalRegistered =>
             UNCHANGED <<arrivals, whiteCount, currentStationIndex,
                         pauseDuration>>]_vars

\* The fourth station has been registered: the route is back at its first
\* station and the stop is the long one again
C40_Witness ==
    /\ arrivals = ROUTE_SIZE + 1
    /\ isPaused
    /\ whiteCount = 1
    /\ currentStationIndex = 1
    /\ pauseDuration = FIRST_STOP_TIME
    /\ lastTelemetry.station = ROUTE[1]

====
